---- MODULE Spec2Model ----
(***************************************************************************)
(* A model of the syslog receiver's core: the octet-counting framing       *)
(* decoder (octet_counting_reader.py), the deduplicator                    *)
(* (msg_deduplicator.py) and the severity-partitioned writer               *)
(* (syslog_writer.py).                                                     *)
(*                                                                         *)
(* Bytes are modelled by their integer values (32 is the space, 10 the     *)
(* newline, 48..57 the ASCII digits); indexes into byte strings are        *)
(* 0-based as in the Python source, so buf[i] of the source is buf[i+1]    *)
(* here.                                                                   *)
(***************************************************************************)
EXTENDS Integers, Sequences, FiniteSets, TLC

VARIABLES
    \* ---- OctetCountingReader (one stream session)
    buffer,       \* self.buffer
    fed,          \* history: every byte passed to feed so far, in order
    emitted,      \* history: the records returned by all feed calls so far
    overflow,     \* the latest feed call logged "Buffer overflow"
    hung,         \* the latest feed call never returns (its loop does not exit)
    \* ---- MessageDeduplicator
    seen_messages,  \* self.seen_messages: key -> time of the last kept sighting
    now,            \* the wall clock, datetime.now(), in ticks
    dpc,            \* per caller thread: "idle", or "read" (clock read, lock not yet taken)
    dkey,           \* per caller thread: the key of its should_write call (NoKey when in none)
    dtime,          \* per caller thread: current_time of its should_write call (0 when in none)
    rpc,            \* the reaper thread: "sleep", or "read" (in _cleanup, lock not yet taken)
    rtime,          \* the reaper thread: current_time of its _cleanup call (0 when in none)
    lastCall,       \* history: the latest should_write call that returned
    firstCall,      \* history: per key, when the window now running was started
    keptAt,         \* history: per key, the wall-clock instants of the calls that returned True
    ncalls,         \* history: the number of should_write calls started
    \* ---- SyslogWriter, its log directory and its threads
    dir,            \* the log directory: <<name, 0>> is <name>.log, <<name, i>> is <name>.log.<i>; path -> inode
    inodes,         \* the files ever created: inode -> content on disk, a sequence of tokens
    file_handles,   \* self.file_handles: severity -> file object
    handles,        \* the file objects ever opened: [inode, closed, buf (written, not yet flushed)]
    locks,          \* self.locks: severity -> Lock
    lockOwner,      \* the Locks ever created: the thread that holds it, or "free"
    master_lock,    \* self.master_lock: the thread that holds it, or "free"
    is_closed,      \* self.is_closed
    backup_count,   \* self.backup_count
    wpc,            \* per writer thread: its position in write()
    wrec,           \* per writer thread: parsed_message
    wsev,           \* per writer thread: severity
    wlock,          \* per writer thread: lock
    wfh,            \* per writer thread: file_handle
    cpc,            \* the closing thread: its position in close()
    ctodo,          \* the closing thread: the severities of list(self.locks.keys()) still to visit
    cpick,          \* the closing thread: lock
    cacquired,      \* the closing thread: acquired_locks
    written,        \* history: the records of the write() calls made on the open writer
    nwrites,        \* history: the number of write() calls
    ncloses,        \* history: the number of close() calls
    \* ---- the receivers' pipeline (_process_message) and a stream session
    received,       \* history: the records handed to _process_message, in order
    pending,        \* a session handler: the records of its latest feed not yet processed
    \* ---- I/O errors met by the writer
    failed,         \* history: the write() calls that met an I/O error, [rec, step]
    \* ---- the handler of the one stream session that is modelled with its decoder
    session,        \* "open" while its loop runs, "closed" once it left it and closed its socket
    \* ---- TLSSyslogReceiver: start(), the handler threads and stop()
    running,        \* self.running
    apc,            \* start(): where its thread stands
    acur,           \* start(): the peer whose connection it accepted and is setting up
    listener,       \* the listening socket: "none", "open" or "closed"
    spc,            \* each peer: where its connection and its handler thread stand
    ssock,          \* each peer's session socket: "none", "open" or "closed"
    connections,    \* self.connections, the peers of its entries in order
    stpc,           \* stop(): where its thread stands
    served,         \* history: the recv calls of each handler that returned data
    \* ---- SyslogParser
    parse_message,  \* the text handed to the latest parse() call
    parse_result,   \* the record that call returned, <<>> before the first call
    \* ---- SyslogWriter.flush_all, run by one thread
    fpc,            \* where the thread stands in flush_all
    fsize,          \* the size of self.locks when the loop's iterator was made
    fpos,           \* the number of entries the iterator has yielded
    fsev,           \* severity
    flock,          \* lock
    nflushes        \* the flush_all calls made so far

decVars == <<buffer, fed, emitted, overflow, hung>>
dedupVars == <<seen_messages, now, dpc, dkey, dtime, rpc, rtime,
               lastCall, firstCall, keptAt, ncalls>>

writerVars == <<dir, inodes, file_handles, handles, locks, lockOwner, master_lock,
                is_closed, backup_count, wpc, wrec, wsev, wlock, wfh,
                cpc, ctodo, cpick, cacquired, written, nwrites, ncloses>>

pipeVars == <<received, pending>>

faultVars == <<failed>>

\* SyslogParser.parse: the text of the last call and the record it returned
parseVars == <<parse_message, parse_result>>

sessVars == <<session>>

\* SyslogWriter.flush_all: the thread that runs it
flushVars == <<fpc, fsize, fpos, fsev, flock, nflushes>>

recvVars == <<running, apc, acur, listener, spc, ssock, connections, stpc, served>>

vars == <<decVars, dedupVars, writerVars, pipeVars, faultVars, parseVars, sessVars, recvVars,
          flushVars>>

----------------------------------------------------------------------------
(***************************************************************************)
(* Bounds of the model.                                                    *)
(***************************************************************************)
\* OctetCountingReader(max_msg_len=..., max_buffer_size=...) of the session
max_msg_len == 1
max_buffer_size == 5
\* the longest byte stream a session receives
MaxStream == 6
\* MessageDeduplicator(window_minutes=...), in clock ticks
window_minutes == 2
\* the clock stops at MaxTime
MaxTime == 5
\* the should_write calls made while caller threads interleave
MaxCalls == 3
\* SyslogWriter(max_bytes=...), in the units of JsonLen
max_bytes == 4
\* SyslogWriter(backup_count=...) ranges over 0..MaxBackupCount
MaxBackupCount == 2
\* the write() calls of a single-threaded run
MaxWrites == 5
\* the write() calls made while writer threads interleave
MaxConcWrites == 3
\* the close() calls
MaxCloses == 2

\* the write() calls made beside a flush_all() call, and the flush_all() calls
MaxLiveWrites == 2
MaxFlushes == 1
\* the datagrams a receiver hands to the pipeline
MaxMessages == 3
\* the write() calls that meet an I/O error
MaxFaults == 2
\* the recv calls of one session handler that return data
MaxServed == 2
\* the clock of the receivers' runs
MaxPipelineTime == 2
\* the texts handed to parse() carry the PRI values 0..MaxPri
MaxPri == 199
\* sys.get_int_max_str_digits(), scaled down
int_max_str_digits == 4

----------------------------------------------------------------------------
(***************************************************************************)
(* Byte-string helpers with Python's semantics.                            *)
(***************************************************************************)
SP == 32
NL == 10
REPLACEMENT == 65533

\* the bytes a stream is made of: "0", "1", space, newline, "-", and 0xFF
\* (a byte that is neither ASCII nor part of any UTF-8 sequence)
Bytes == {48, 49, SP, NL, 45, 255}

MinOf(S) == CHOOSE x \in S : \A y \in S : x <= y
MaxOf(S) == CHOOSE x \in S : \A y \in S : x >= y

\* s.find(b, from): the first 0-based index >= from holding b, or -1
Find(s, b, from) ==
    LET idx == {i \in from..(Len(s) - 1) : s[i + 1] = b}
    IN  IF idx = {} THEN -1 ELSE MinOf(idx)

\* a slice bound as Python normalises it: negative counts from the end,
\* then clamped to 0..len(s)
SliceIndex(s, i) ==
    IF i < 0 THEN (IF Len(s) + i < 0 THEN 0 ELSE Len(s) + i)
    ELSE (IF i > Len(s) THEN Len(s) ELSE i)

\* s[a:b]
PySlice(s, a, b) ==
    LET lo == SliceIndex(s, a)
        hi == SliceIndex(s, b)
    IN  IF lo >= hi THEN <<>> ELSE SubSeq(s, lo + 1, hi)

\* s[a:]
PyFrom(s, a) == PySlice(s, a, Len(s))

IsDigit(b) == b >= 48 /\ b <= 57
\* the ASCII characters int() strips from both ends
IsIntSpace(b) == b \in {9, 10, 11, 12, 13, 32}

Strip(s) ==
    LET keep == {i \in 1..Len(s) : ~IsIntSpace(s[i])}
    IN  IF keep = {} THEN <<>> ELSE SubSeq(s, MinOf(keep), MaxOf(keep))

RECURSIVE DecimalValue(_)
DecimalValue(ds) ==
    IF ds = <<>> THEN 0
    ELSE 10 * DecimalValue(SubSeq(ds, 1, Len(ds) - 1)) + (ds[Len(ds)] - 48)

SelectDigits(s) == SelectSeq(s, IsDigit)

\* digits, with single underscores allowed between two digits
IsIntBody(s) ==
    /\ s # <<>>
    /\ IsDigit(s[1]) /\ IsDigit(s[Len(s)])
    /\ \A i \in 1..Len(s) : IsDigit(s[i]) \/ s[i] = 95
    /\ \A i \in 1..(Len(s) - 1) : ~(s[i] = 95 /\ s[i + 1] = 95)

\* int(prefix.decode('ascii')): [ok |-> FALSE] stands for ValueError or
\* UnicodeDecodeError
ParseInt(prefix) ==
    IF \E i \in 1..Len(prefix) : prefix[i] >= 128
    THEN [ok |-> FALSE, val |-> 0]
    ELSE LET t == Strip(prefix)
             signed == t # <<>> /\ t[1] \in {43, 45}
             body == IF signed THEN Tail(t) ELSE t
         IN  IF ~IsIntBody(body) THEN [ok |-> FALSE, val |-> 0]
             ELSE [ok |-> TRUE,
                   val |-> IF signed /\ t[1] = 45
                           THEN 0 - DecimalValue(SelectDigits(body))
                           ELSE DecimalValue(SelectDigits(body))]

\* bytes.decode('utf-8', errors='replace') on the bytes of the model: an
\* ASCII byte is its own character; a byte that can never occur in UTF-8
\* (0xFF) becomes one U+FFFD
DecodeUtf8(bs) == [i \in 1..Len(bs) |-> IF bs[i] < 128 THEN bs[i] ELSE REPLACEMENT]

----------------------------------------------------------------------------
(***************************************************************************)
(* OctetCountingReader                                                     *)
(***************************************************************************)
\* a frame-skip that stops in front of the newline instead of after it
SkipToNextFrameKeepsNewline(buf, space_idx) ==
    LET next_newline == Find(buf, NL, space_idx)
    IN  IF next_newline > 0 THEN PyFrom(buf, next_newline) ELSE <<>>

\* _skip_to_next_frame
SkipToNextFrame(buf, space_idx) ==
    LET next_newline == Find(buf, NL, space_idx)
    IN  IF next_newline > 0 THEN PyFrom(buf, next_newline + 1) ELSE <<>>

\* ExtractAndDecode with the buffer advanced one byte too far, as if a
\* separator followed every frame
ExtractAndDecodeSeparator(buf, space_idx, msg_len, frame_len) ==
    [kind |-> "str",
     buffer |-> PyFrom(buf, frame_len + 1),
     msg |-> DecodeUtf8(PySlice(buf, space_idx + 1, space_idx + 1 + msg_len))]

\* _extract_and_decode: the decoded message and the buffer left
ExtractAndDecode(buf, space_idx, msg_len, frame_len) ==
    LET msg_start == space_idx + 1
        msg_end == msg_start + msg_len
    IN  [kind |-> "str",
         buffer |-> PyFrom(buf, frame_len),
         msg |-> DecodeUtf8(PySlice(buf, msg_start, msg_end))]

\* _try_extract_one_message: kind is "str" (a message), "None" (need more
\* data) or "False" (skip / recovery)
TryExtractOneMessage(buf) ==
    LET space_idx == Find(buf, SP, 0)
    IN  IF space_idx = -1
        THEN [kind |-> "None", buffer |-> buf, msg |-> <<>>]
        ELSE LET n == ParseInt(PySlice(buf, 0, space_idx))
             IN  IF ~n.ok
                 THEN [kind |-> "False", buffer |-> PyFrom(buf, 1), msg |-> <<>>]
                 ELSE IF n.val > max_msg_len
                 THEN [kind |-> "False",
                       buffer |-> SkipToNextFrame(buf, space_idx),
                       msg |-> <<>>]
                 ELSE LET frame_length == space_idx + 1 + n.val
                      IN  IF Len(buf) < frame_length
                          THEN [kind |-> "None", buffer |-> buf, msg |-> <<>>]
                          ELSE ExtractAndDecode(buf, space_idx, n.val, frame_length)

\* _extract_all_messages: the while loop.  A pass never lengthens the
\* buffer, and the loop is deterministic, so a pass that returns a message
\* or False and leaves the buffer as it was repeats forever: returns is
\* FALSE and the call does not come back.
RECURSIVE ExtractAllMessages(_, _)
ExtractAllMessages(buf, messages) ==
    IF buf = <<>>
    THEN [buffer |-> buf, messages |-> messages, returns |-> TRUE]
    ELSE LET result == TryExtractOneMessage(buf)
         IN  IF result.kind = "None"
             THEN [buffer |-> buf, messages |-> messages, returns |-> TRUE]
             ELSE IF result.buffer = buf
             THEN [buffer |-> buf, messages |-> messages, returns |-> FALSE]
             ELSE ExtractAllMessages(
                      result.buffer,
                      IF result.kind = "str"
                      THEN Append(messages, result.msg) ELSE messages)

\* FeedResult without the reset of _check_buffer_size
FeedResultNoCeiling(buf, data) == ExtractAllMessages(buf \o data, <<>>)

\* feed on a buffer: _check_buffer_size, then _extract_all_messages
FeedResult(buf, data) ==
    LET appended == buf \o data
    IN  IF Len(appended) > max_buffer_size
        THEN [buffer |-> <<>>, messages |-> <<>>, returns |-> TRUE]
        ELSE ExtractAllMessages(appended, <<>>)

\* the chunks one read can deliver to a session that has received n bytes
Chunks(n) == UNION {[1..k -> Bytes] : k \in 1..(MaxStream - n)}

\* reader.feed(data): what the call does to the decoder
FeedCall(data) ==
    /\ ~hung
    /\ LET r == FeedResult(buffer, data)
       IN  /\ buffer' = r.buffer
           /\ hung' = ~r.returns
           /\ emitted' = IF r.returns THEN emitted \o r.messages ELSE emitted
    /\ overflow' = (Len(buffer) + Len(data) > max_buffer_size)
    /\ fed' = fed \o data

\* reader.feed(data)
Feed(data) ==
    /\ FeedCall(data)
    /\ UNCHANGED <<dedupVars, writerVars, pipeVars, faultVars, parseVars, sessVars, recvVars, flushVars>>

InitDecoder ==
    /\ buffer = <<>>
    /\ fed = <<>>
    /\ emitted = <<>>
    /\ overflow = FALSE
    /\ hung = FALSE

NextDecoder == \E data \in Chunks(Len(fed)) : Feed(data)

----------------------------------------------------------------------------
(***************************************************************************)
(* MessageDeduplicator                                                     *)
(***************************************************************************)
\* the (source_ip, priority, message) keys of the model: one key and three
\* that differ from it in the message's case, the priority, the source
Keys == {<<"1.1.1.1", 14, "m">>, <<"1.1.1.1", 14, "M">>,
         <<"1.1.1.1", 13, "m">>, <<"2.2.2.2", 14, "m">>}

\* the keys the interleaved caller threads use
ConcKeys == {<<"1.1.1.1", 14, "m">>, <<"2.2.2.2", 14, "m">>}

\* the locals of a thread that is in no call
NoKey == <<"", 0, "">>

\* the threads that call should_write
DThreads == {"t1", "t2"}

EmptyMap == [k \in {} |-> 0]

\* f[k] = v, as a dict assignment
Put(f, k, v) == [x \in (DOMAIN f) \cup {k} |-> IF x = k THEN v ELSE f[x]]

\* a window test that still suppresses at exactly the window
ShouldWriteReturnsStrict(seen, key, current_time) ==
    ~(key \in DOMAIN seen /\ current_time - seen[key] <= window_minutes)

\* should_write, inside `with self.lock`: the value returned
ShouldWriteReturns(seen, key, current_time) ==
    ~(key \in DOMAIN seen /\ current_time - seen[key] < window_minutes)

\* should_write that never records the sighting
ShouldWriteSeenNoInsert(seen, key, current_time) == seen

\* should_write that refreshes the timestamp of a suppressed duplicate
ShouldWriteSeenRefresh(seen, key, current_time) == Put(seen, key, current_time)

\* should_write, inside `with self.lock`: self.seen_messages afterwards
ShouldWriteSeen(seen, key, current_time) ==
    IF ShouldWriteReturns(seen, key, current_time)
    THEN Put(seen, key, current_time)
    ELSE seen

\* a cleanup that also removes the entries exactly one window old
CleanupSeenInclusive(seen, current_time) ==
    [k \in {x \in DOMAIN seen : seen[x] > current_time - window_minutes} |-> seen[k]]

\* _cleanup, inside `with self.lock`: self.seen_messages afterwards
CleanupSeen(seen, current_time) ==
    LET cutoff_time == current_time - window_minutes
        keys_to_remove == {k \in DOMAIN seen : seen[k] < cutoff_time}
    IN  [k \in (DOMAIN seen) \ keys_to_remove |-> seen[k]]

\* history of a call with `key` that read the clock at current_time and
\* returned `result`: whether it is the first call ever made with the key,
\* whether it comes less than the window after the call that started the
\* key's running window, and the start of the running window afterwards
\* (firstCall is the map of the same calls made with no cleanup in between:
\* it takes the assignments of line 41 and loses no entry)
RecordCall(key, current_time, result) ==
    /\ lastCall' = <<[key |-> key, time |-> current_time, result |-> result,
                      first |-> key \notin DOMAIN firstCall,
                      within |-> /\ key \in DOMAIN firstCall
                                 /\ current_time - firstCall[key] < window_minutes]>>
    /\ firstCall' = IF \/ key \notin DOMAIN firstCall
                       \/ current_time - firstCall[key] >= window_minutes
                    THEN Put(firstCall, key, current_time)
                    ELSE firstCall

\* should_write(source_ip, priority, message) by a single caller: the clock
\* is read and the locked region runs with no other step in between
ShouldWrite(key) ==
    /\ seen_messages' = ShouldWriteSeen(seen_messages, key, now)
    /\ RecordCall(key, now, ShouldWriteReturns(seen_messages, key, now))
    /\ UNCHANGED <<now, dpc, dkey, dtime, rpc, rtime, keptAt, ncalls>>
    /\ UNCHANGED <<decVars, writerVars, pipeVars, faultVars, parseVars, sessVars, recvVars, flushVars>>

\* the arguments of the should_write calls whose keys are compared: a call,
\* and calls that differ from it in the source, in the priority, in the case
\* of the message and in the whitespace of the message
KeyArgs ==
    { <<"1.1.1.1", 14, "m">>,
      <<"2.2.2.2", 14, "m">>,
      <<"1.1.1.1", 13, "m">>,
      <<"1.1.1.1", 14, "M">>,
      <<"1.1.1.1", 14, "m ">> }

\* message.strip().lower(), on the messages of KeyArgs
Folded(message) == IF message \in {"M", "m "} THEN "m" ELSE message

\* a key that ignores the case and the outer whitespace of the message
KeyTupleFolded(source_ip, priority, message) == <<source_ip, priority, Folded(message)>>

\* should_write, line 31: key = (source_ip, priority, message)
KeyTuple(source_ip, priority, message) == <<source_ip, priority, message>>

\* should_write(source_ip, priority, message) by a single caller; the history
\* is kept by the arguments of the call
ShouldWriteCall(source_ip, priority, message) ==
    LET key == KeyTuple(source_ip, priority, message)
    IN  /\ seen_messages' = ShouldWriteSeen(seen_messages, key, now)
        /\ RecordCall(<<source_ip, priority, message>>, now,
                      ShouldWriteReturns(seen_messages, key, now))
        /\ UNCHANGED <<now, dpc, dkey, dtime, rpc, rtime, keptAt, ncalls>>
        /\ UNCHANGED <<decVars, writerVars, pipeVars, faultVars, parseVars, sessVars, recvVars, flushVars>>

\* _cleanup() by the reaper or a direct caller, run without interruption
Cleanup ==
    /\ seen_messages' = CleanupSeen(seen_messages, now)
    /\ UNCHANGED <<now, dpc, dkey, dtime, rpc, rtime, lastCall, firstCall, keptAt, ncalls>>
    /\ UNCHANGED <<decVars, writerVars, pipeVars, faultVars, parseVars, sessVars, recvVars, flushVars>>

\* the wall clock advances
Tick ==
    /\ now < MaxTime
    /\ now' = now + 1
    /\ UNCHANGED <<seen_messages, dpc, dkey, dtime, rpc, rtime,
                   lastCall, firstCall, keptAt, ncalls>>
    /\ UNCHANGED <<decVars, writerVars, pipeVars, faultVars, parseVars, sessVars, recvVars, flushVars>>

\* should_write, line 32: current_time = datetime.now(), before the lock
SWReadClock(t, key) ==
    /\ dpc[t] = "idle"
    /\ ncalls < MaxCalls
    /\ dpc' = [dpc EXCEPT ![t] = "read"]
    /\ dkey' = [dkey EXCEPT ![t] = key]
    /\ dtime' = [dtime EXCEPT ![t] = now]
    /\ ncalls' = ncalls + 1
    /\ UNCHANGED <<seen_messages, now, rpc, rtime, lastCall, firstCall, keptAt>>
    /\ UNCHANGED <<decVars, writerVars, pipeVars, faultVars, parseVars, sessVars, recvVars, flushVars>>

\* should_write, lines 34-42: the region under self.lock, and the return
SWLocked(t) ==
    /\ dpc[t] = "read"
    /\ seen_messages' = ShouldWriteSeen(seen_messages, dkey[t], dtime[t])
    /\ keptAt' = IF ShouldWriteReturns(seen_messages, dkey[t], dtime[t])
                 THEN [keptAt EXCEPT ![dkey[t]] = Append(@, now)]
                 ELSE keptAt
    /\ RecordCall(dkey[t], dtime[t], ShouldWriteReturns(seen_messages, dkey[t], dtime[t]))
    /\ dpc' = [dpc EXCEPT ![t] = "idle"]
    /\ dkey' = [dkey EXCEPT ![t] = NoKey]
    /\ dtime' = [dtime EXCEPT ![t] = 0]
    /\ UNCHANGED <<now, rpc, rtime, ncalls>>
    /\ UNCHANGED <<decVars, writerVars, pipeVars, faultVars, parseVars, sessVars, recvVars, flushVars>>

\* _cleanup, lines 52-53: the reaper reads the clock, before the lock
ReaperReadClock ==
    /\ rpc = "sleep"
    /\ rpc' = "read"
    /\ rtime' = now
    /\ UNCHANGED <<seen_messages, now, dpc, dkey, dtime, lastCall, firstCall, keptAt, ncalls>>
    /\ UNCHANGED <<decVars, writerVars, pipeVars, faultVars, parseVars, sessVars, recvVars, flushVars>>

\* _cleanup, lines 55-61: the region under self.lock
ReaperLocked ==
    /\ rpc = "read"
    /\ seen_messages' = CleanupSeen(seen_messages, rtime)
    /\ rpc' = "sleep"
    /\ rtime' = 0
    /\ UNCHANGED <<now, dpc, dkey, dtime, lastCall, firstCall, keptAt, ncalls>>
    /\ UNCHANGED <<decVars, writerVars, pipeVars, faultVars, parseVars, sessVars, recvVars, flushVars>>

InitDedup ==
    /\ seen_messages = EmptyMap
    /\ now = 0
    /\ dpc = [t \in DThreads |-> "idle"]
    /\ dkey = [t \in DThreads |-> NoKey]
    /\ dtime = [t \in DThreads |-> 0]
    /\ rpc = "sleep"
    /\ rtime = 0
    /\ lastCall = <<>>
    /\ firstCall = EmptyMap
    /\ keptAt = [k \in Keys |-> <<>>]
    /\ ncalls = 0

\* one caller and the reaper, every call run to its end before the next
NextDedup ==
    \/ \E key \in Keys : ShouldWrite(key)
    \/ Cleanup
    \/ Tick

\* caller threads and the reaper, interleaved at the lock
NextDedupConc ==
    \/ \E t \in DThreads, key \in ConcKeys : SWReadClock(t, key)
    \/ \E t \in DThreads : SWLocked(t)
    \/ ReaperReadClock
    \/ ReaperLocked
    \/ Tick

\* one caller whose calls run to their end, and the reaper thread, which
\* reads the clock before it takes the lock
NextDedupReaper ==
    \/ \E key \in Keys : ShouldWrite(key)
    \/ ReaperReadClock
    \/ ReaperLocked
    \/ Tick

----------------------------------------------------------------------------
(***************************************************************************)
(* SyslogWriter (syslog_writer.py)                                         *)
(*                                                                         *)
(* The log directory maps a path to an inode and an inode to its content,  *)
(* so that a rename moves a file and an open file object keeps writing to  *)
(* the file it opened.  File content is a sequence of tokens: the JSON     *)
(* text of one record, or a newline.  A file object buffers what is        *)
(* written to it until it is flushed or closed.                            *)
(***************************************************************************)
SEVERITY_FILES ==
    {"emergency", "alert", "critical", "error", "warning", "notice", "info", "debug"}

\* the records handed to write() by one thread: known severities, a severity
\* outside the table, and a record without a severity
WriteRecords ==
    { [severity |-> "info", message |-> "m"],
      [severity |-> "info", message |-> "mm"],
      [severity |-> "error", message |-> "m"],
      [severity |-> "../etc", message |-> "m"],
      [message |-> "m"] }

\* records of severities outside the table, next to one inside it
UnknownRecords ==
    { [severity |-> "../etc", message |-> "m"],
      [severity |-> "INFO", message |-> "m"],
      [severity |-> "unknown", message |-> "mm"],
      [severity |-> "info", message |-> "m"] }

\* the records handed to write() by interleaved threads
ConcRecords ==
    { [severity |-> "info", message |-> "mmm"],
      [severity |-> "error", message |-> "m"] }

NoRec == [message |-> ""]

WThreads == {"w1", "w2"}

\* parsed_message.get('severity', 'info')
GetSeverity(parsed_message) ==
    IF "severity" \in DOMAIN parsed_message THEN parsed_message.severity ELSE "info"

\* a write that keeps the severity of the record as it came
ValidSeverityRaw(parsed_message) == GetSeverity(parsed_message)

\* write: the severity after `if severity not in self.SEVERITY_FILES`
ValidSeverity(parsed_message) ==
    IF GetSeverity(parsed_message) \in SEVERITY_FILES
    THEN GetSeverity(parsed_message) ELSE "unknown"

\* the size of the JSON text of a record
JsonLen(parsed_message) == Len(parsed_message.message)

JsonToken(parsed_message) == [kind |-> "json", rec |-> parsed_message]

NewlineToken == [kind |-> "nl"]

TokenSize(tok) == IF tok.kind = "nl" THEN 1 ELSE JsonLen(tok.rec)

\* st_size of a content
RECURSIVE Size(_)
Size(content) ==
    IF content = <<>> THEN 0 ELSE TokenSize(Head(content)) + Size(Tail(content))

\* f without the key k, as `del f[k]`
Drop(f, k) == [x \in (DOMAIN f) \ {k} |-> f[x]]

\* the stem of SEVERITY_FILES.get(severity, 'unknown.log')
FileName(severity) == IF severity \in SEVERITY_FILES THEN severity ELSE "unknown"

\* log_dir / filename
ActivePath(severity) == <<FileName(severity), 0>>

\* log_dir / f"{filename}.{i}"
BackupPath(severity, i) == <<FileName(severity), i>>

\* path.exists()
Exists(d, path) == path \in DOMAIN d

\* path.unlink()
Unlink(d, path) == Drop(d, path)

\* a rename that leaves the old name in place
RenameKeepsOld(d, old, new) ==
    [p \in (DOMAIN d) \cup {new} |-> IF p = new THEN d[old] ELSE d[p]]

\* old.rename(new): the new name replaces whatever it named
Rename(d, old, new) ==
    [p \in ((DOMAIN d) \ {old}) \cup {new} |-> IF p = new THEN d[old] ELSE d[p]]

\* the writer's files and file objects, as one value
WriterFiles ==
    [dir |-> dir, inodes |-> inodes, file_handles |-> file_handles, handles |-> handles]

\* file_handle.flush()
FlushHandle(w, h) ==
    IF w.handles[h].closed THEN w
    ELSE [w EXCEPT !.inodes[w.handles[h].inode] = @ \o w.handles[h].buf,
                   !.handles[h].buf = <<>>]

\* file_handle.close()
CloseHandle(w, h) == [FlushHandle(w, h) EXCEPT !.handles[h].closed = TRUE]

\* a size test that rotates only past max_bytes
ShouldRotateStrict(w, severity) ==
    /\ Exists(w.dir, ActivePath(severity))
    /\ Size(w.inodes[w.dir[ActivePath(severity)]]) > max_bytes

\* _should_rotate
ShouldRotate(w, severity) ==
    /\ Exists(w.dir, ActivePath(severity))
    /\ Size(w.inodes[w.dir[ActivePath(severity)]]) >= max_bytes

\* _rotate_file: the loop over range(backup_count - 1, 0, -1), from i down
RECURSIVE RotateBackups(_, _, _)
RotateBackups(d, severity, i) ==
    IF i < 1 THEN d
    ELSE LET old_backup == BackupPath(severity, i)
             new_backup == BackupPath(severity, i + 1)
             d1 == IF Exists(d, old_backup)
                   THEN Rename(IF Exists(d, new_backup) THEN Unlink(d, new_backup) ELSE d,
                               old_backup, new_backup)
                   ELSE d
         IN  RotateBackups(d1, severity, i - 1)

\* a rotation that numbers the backups upwards: the active file takes the
\* first free suffix, or the last one when none is free
RotateFileAscending(w, severity, bc) ==
    LET w1 == IF severity \in DOMAIN w.file_handles
              THEN [CloseHandle(w, w.file_handles[severity])
                        EXCEPT !.file_handles = Drop(@, severity)]
              ELSE w
        free == {i \in 1..bc : ~Exists(w1.dir, BackupPath(severity, i))}
        k == IF free = {} THEN MaxOf({bc, 1}) ELSE MinOf(free)
        d2 == IF Exists(w1.dir, ActivePath(severity))
              THEN Rename(w1.dir, ActivePath(severity), BackupPath(severity, k))
              ELSE w1.dir
    IN  [w1 EXCEPT !.dir = d2]

\* _rotate_file
RotateFile(w, severity, bc) ==
    LET w1 == IF severity \in DOMAIN w.file_handles
              THEN [CloseHandle(w, w.file_handles[severity])
                        EXCEPT !.file_handles = Drop(@, severity)]
              ELSE w
        d1 == RotateBackups(w1.dir, severity, bc - 1)
        d2 == IF Exists(d1, ActivePath(severity))
              THEN Rename(d1, ActivePath(severity), BackupPath(severity, 1))
              ELSE d1
    IN  [w1 EXCEPT !.dir = d2]

\* _get_file_handle: open(filepath, 'a', buffering=8192) and the assignment
OpenAppend(w, severity) ==
    LET path == ActivePath(severity)
        create == ~Exists(w.dir, path)
        inode == IF create THEN Len(w.inodes) + 1 ELSE w.dir[path]
    IN  [dir |-> IF create THEN Put(w.dir, path, inode) ELSE w.dir,
         inodes |-> IF create THEN Append(w.inodes, <<>>) ELSE w.inodes,
         handles |-> Append(w.handles, [inode |-> inode, closed |-> FALSE, buf |-> <<>>]),
         file_handles |-> Put(w.file_handles, severity, Len(w.handles) + 1)]

\* json.dump(parsed_message, file_handle)
JsonDump(w, h, parsed_message) ==
    [w EXCEPT !.handles[h].buf = Append(@, JsonToken(parsed_message))]

\* a newline that stays in the file object's buffer
WriteNewlineNoFlush(w, h) == [w EXCEPT !.handles[h].buf = Append(@, NewlineToken)]

\* file_handle.write('\n'); file_handle.flush()
WriteNewlineFlush(w, h) ==
    FlushHandle([w EXCEPT !.handles[h].buf = Append(@, NewlineToken)], h)

\* close: flush and close every file object of self.file_handles, then clear
RECURSIVE CloseHandles(_, _)
CloseHandles(w, severities) ==
    IF severities = {} THEN w
    ELSE LET severity == CHOOSE s \in severities : TRUE
         IN  CloseHandles(CloseHandle(w, w.file_handles[severity]), severities \ {severity})

CloseAll(w) ==
    [CloseHandles(w, DOMAIN w.file_handles) EXCEPT !.file_handles = EmptyMap]

\* self.locks keeps its insertion order: a sequence of [severity, lock]
HasLock(ls, severity) == \E i \in 1..Len(ls) : ls[i].severity = severity

LockOf(ls, severity) == ls[CHOOSE i \in 1..Len(ls) : ls[i].severity = severity].lock

\* self.locks[severity] = lock
SetLock(ls, severity, lock) ==
    IF HasLock(ls, severity)
    THEN [i \in 1..Len(ls) |->
            IF ls[i].severity = severity THEN [severity |-> severity, lock |-> lock] ELSE ls[i]]
    ELSE Append(ls, [severity |-> severity, lock |-> lock])

\* list(self.locks.keys())
LockKeys(ls) == [i \in 1..Len(ls) |-> ls[i].severity]

SetWriterFiles(w) ==
    /\ dir' = w.dir
    /\ inodes' = w.inodes
    /\ file_handles' = w.file_handles
    /\ handles' = w.handles

fileVars == <<dir, inodes, file_handles, handles>>
lockVars == <<locks, lockOwner>>
wthreadVars == <<wpc, wrec, wsev, wlock, wfh>>
closerVars == <<cpc, ctodo, cpick, cacquired>>

\* the body of write() once the lock is held and the writer is open
WriteLocked(w, severity, parsed_message, bc) ==
    LET w1 == IF ShouldRotate(w, severity) THEN RotateFile(w, severity, bc) ELSE w
        w2 == IF severity \in DOMAIN w1.file_handles THEN w1 ELSE OpenAppend(w1, severity)
        h  == w2.file_handles[severity]
    IN  WriteNewlineFlush(JsonDump(w2, h, parsed_message), h)

\* write(parsed_message) from call to return: what it does to the writer
WriteCall(parsed_message) ==
    /\ nwrites' = nwrites + 1
    /\ IF is_closed
       THEN UNCHANGED <<fileVars, lockVars, written>>
       ELSE LET severity == ValidSeverity(parsed_message)
            IN  /\ IF HasLock(locks, severity)
                   THEN UNCHANGED lockVars
                   ELSE /\ locks' = SetLock(locks, severity, Len(lockOwner) + 1)
                        /\ lockOwner' = Append(lockOwner, "free")
                /\ SetWriterFiles(WriteLocked(WriterFiles, severity, parsed_message,
                                              backup_count))
                /\ written' = Append(written, parsed_message)
    /\ UNCHANGED <<master_lock, is_closed, backup_count, wthreadVars, closerVars, ncloses>>

\* write(parsed_message), run by one thread from call to return
Write(parsed_message) ==
    /\ nwrites < MaxWrites
    /\ \A t \in WThreads : wpc[t] = "idle"
    /\ cpc = "idle"
    /\ WriteCall(parsed_message)
    /\ UNCHANGED <<decVars, dedupVars, pipeVars, faultVars, parseVars, sessVars, recvVars, flushVars>>

\* the records written while I/O errors come and go
FaultRecords ==
    { [severity |-> "info", message |-> "m"],
      [severity |-> "info", message |-> "mm"] }

\* the statements of write()'s try block that can raise an I/O error:
\* _should_rotate (stat), _rotate_file (close of the handle, rename of the
\* active file), open, json.dump (with nothing or a part of the text left
\* in the file object's buffer) and flush
FaultSteps ==
    {"size", "rotate_close", "rotate_rename", "open", "append", "append_partial", "flush"}

\* a part of the JSON text of a record
PartToken(parsed_message) == [kind |-> "part", rec |-> parsed_message]

\* whether the statement is reached by a write to the severity
FaultReached(w, severity, bc, step) ==
    LET w1 == IF ShouldRotate(w, severity) THEN RotateFile(w, severity, bc) ELSE w
    IN  CASE step = "rotate_close" ->
                ShouldRotate(w, severity) /\ severity \in DOMAIN w.file_handles
          [] step = "rotate_rename" -> ShouldRotate(w, severity)
          [] step = "open" -> severity \notin DOMAIN w1.file_handles
          [] OTHER -> TRUE

\* the body of write() up to the statement that raises; the except clauses
\* of write() swallow the error
WriteLockedFault(w, severity, parsed_message, bc, step) ==
    LET w1 == IF ShouldRotate(w, severity) THEN RotateFile(w, severity, bc) ELSE w
        w2 == IF severity \in DOMAIN w1.file_handles THEN w1 ELSE OpenAppend(w1, severity)
        h  == w2.file_handles[severity]
        dropped == IF severity \in DOMAIN w.file_handles
                   THEN [CloseHandle(w, w.file_handles[severity])
                            EXCEPT !.file_handles = Drop(@, severity)]
                   ELSE w
    IN  CASE step = "size" -> w
          [] step = "rotate_close" ->
                \* close() raised: the file object is closed, what it had
                \* buffered is gone, and `del` was not reached
                [w EXCEPT !.handles[w.file_handles[severity]].closed = TRUE,
                          !.handles[w.file_handles[severity]].buf = <<>>]
          [] step = "rotate_rename" ->
                \* filepath.rename(backup) raised after the backups were shifted
                [dropped EXCEPT !.dir = RotateBackups(dropped.dir, severity, bc - 1)]
          [] step = "open" -> w1
          [] step = "append" -> w2
          [] step = "append_partial" ->
                [w2 EXCEPT !.handles[h].buf = Append(@, PartToken(parsed_message))]
          [] OTHER -> WriteNewlineNoFlush(JsonDump(w2, h, parsed_message), h)

\* write(parsed_message) by one thread, with an I/O error raised at a step
WriteFaultCall(parsed_message, step) ==
    /\ nwrites < MaxWrites
    /\ Len(failed) < MaxFaults
    /\ \A t \in WThreads : wpc[t] = "idle"
    /\ cpc = "idle"
    /\ ~is_closed
    /\ LET severity == ValidSeverity(parsed_message)
       IN  /\ FaultReached(WriterFiles, severity, backup_count, step)
           /\ IF HasLock(locks, severity)
              THEN UNCHANGED lockVars
              ELSE /\ locks' = SetLock(locks, severity, Len(lockOwner) + 1)
                   /\ lockOwner' = Append(lockOwner, "free")
           /\ SetWriterFiles(WriteLockedFault(WriterFiles, severity, parsed_message,
                                              backup_count, step))
    /\ nwrites' = nwrites + 1
    /\ failed' = Append(failed, [rec |-> parsed_message, step |-> step])
    /\ UNCHANGED <<master_lock, is_closed, backup_count, wthreadVars, closerVars,
                   written, ncloses>>

\* that call with the rest of the program left alone
WriteFault(parsed_message, step) ==
    /\ WriteFaultCall(parsed_message, step)
    /\ UNCHANGED <<decVars, dedupVars, pipeVars, parseVars, sessVars, recvVars, flushVars>>

\* close(), run by one thread from call to return
Close ==
    /\ ncloses < MaxCloses
    /\ \A t \in WThreads : wpc[t] = "idle"
    /\ cpc = "idle"
    /\ master_lock = "free"
    /\ ncloses' = ncloses + 1
    /\ IF is_closed
       THEN UNCHANGED <<fileVars, is_closed>>
       ELSE /\ is_closed' = TRUE
            /\ SetWriterFiles(CloseAll(WriterFiles))
    /\ UNCHANGED <<lockVars, master_lock, backup_count, wthreadVars, closerVars,
                   written, nwrites>>
    /\ UNCHANGED <<decVars, dedupVars, pipeVars, faultVars, parseVars, sessVars, recvVars, flushVars>>

(***************************************************************************)
(* write() and close() step by step, for threads that interleave.  A step  *)
(* is one read or write of the shared state.                               *)
(***************************************************************************)
\* the end of write(): `with lock` releases the lock
ReturnLocked(t) ==
    /\ lockOwner' = [lockOwner EXCEPT ![wlock[t]] = "free"]
    /\ wpc' = [wpc EXCEPT ![t] = "idle"]
    /\ wrec' = [wrec EXCEPT ![t] = NoRec]
    /\ wsev' = [wsev EXCEPT ![t] = ""]
    /\ wlock' = [wlock EXCEPT ![t] = 0]
    /\ wfh' = [wfh EXCEPT ![t] = 0]

\* write: the unlocked `if self.is_closed` and the severity
WStart(t, parsed_message) ==
    /\ wpc[t] = "idle"
    /\ nwrites < MaxConcWrites
    /\ nwrites' = nwrites + 1
    /\ IF is_closed
       THEN UNCHANGED <<wpc, wrec, wsev, written>>
       ELSE /\ wpc' = [wpc EXCEPT ![t] = "lock_check"]
            /\ wrec' = [wrec EXCEPT ![t] = parsed_message]
            /\ wsev' = [wsev EXCEPT ![t] = ValidSeverity(parsed_message)]
            /\ written' = Append(written, parsed_message)
    /\ UNCHANGED <<fileVars, lockVars, master_lock, is_closed, backup_count, wlock, wfh,
                   closerVars, ncloses>>
    /\ UNCHANGED <<decVars, dedupVars, pipeVars, faultVars, parseVars, sessVars, recvVars, flushVars>>

\* _get_lock: `if severity not in self.locks`
WLockCheck(t) ==
    /\ wpc[t] = "lock_check"
    /\ wpc' = [wpc EXCEPT ![t] = IF HasLock(locks, wsev[t]) THEN "lock_return"
                                 ELSE "lock_create"]
    /\ UNCHANGED <<fileVars, lockVars, master_lock, is_closed, backup_count,
                   wrec, wsev, wlock, wfh, closerVars, written, nwrites, ncloses>>
    /\ UNCHANGED <<decVars, dedupVars, pipeVars, faultVars, parseVars, sessVars, recvVars, flushVars>>

\* _get_lock: `self.locks[severity] = threading.Lock()`
WLockCreate(t) ==
    /\ wpc[t] = "lock_create"
    /\ locks' = SetLock(locks, wsev[t], Len(lockOwner) + 1)
    /\ lockOwner' = Append(lockOwner, "free")
    /\ wpc' = [wpc EXCEPT ![t] = "lock_return"]
    /\ UNCHANGED <<fileVars, master_lock, is_closed, backup_count,
                   wrec, wsev, wlock, wfh, closerVars, written, nwrites, ncloses>>
    /\ UNCHANGED <<decVars, dedupVars, pipeVars, faultVars, parseVars, sessVars, recvVars, flushVars>>

\* _get_lock: `return self.locks[severity]`
WLockReturn(t) ==
    /\ wpc[t] = "lock_return"
    /\ wlock' = [wlock EXCEPT ![t] = LockOf(locks, wsev[t])]
    /\ wpc' = [wpc EXCEPT ![t] = "acquire"]
    /\ UNCHANGED <<fileVars, lockVars, master_lock, is_closed, backup_count,
                   wrec, wsev, wfh, closerVars, written, nwrites, ncloses>>
    /\ UNCHANGED <<decVars, dedupVars, pipeVars, faultVars, parseVars, sessVars, recvVars, flushVars>>

\* write: `with lock` acquires the lock, then the second `if self.is_closed`
WAcquire(t) ==
    /\ wpc[t] = "acquire"
    /\ lockOwner[wlock[t]] = "free"
    /\ lockOwner' = [lockOwner EXCEPT ![wlock[t]] = t]
    /\ wpc' = [wpc EXCEPT ![t] = "recheck"]
    /\ UNCHANGED <<fileVars, locks, master_lock, is_closed, backup_count,
                   wrec, wsev, wlock, wfh, closerVars, written, nwrites, ncloses>>
    /\ UNCHANGED <<decVars, dedupVars, pipeVars, faultVars, parseVars, sessVars, recvVars, flushVars>>

\* write: the `if self.is_closed` under the lock
WRecheck(t) ==
    /\ wpc[t] = "recheck"
    /\ IF is_closed
       THEN ReturnLocked(t)
       ELSE /\ wpc' = [wpc EXCEPT ![t] = "rotate"]
            /\ UNCHANGED <<lockOwner, wrec, wsev, wlock, wfh>>
    /\ UNCHANGED <<fileVars, locks, master_lock, is_closed, backup_count,
                   closerVars, written, nwrites, ncloses>>
    /\ UNCHANGED <<decVars, dedupVars, pipeVars, faultVars, parseVars, sessVars, recvVars, flushVars>>

\* write: `if self._should_rotate(severity): self._rotate_file(severity)`
WRotate(t) ==
    /\ wpc[t] = "rotate"
    /\ SetWriterFiles(IF ShouldRotate(WriterFiles, wsev[t])
                      THEN RotateFile(WriterFiles, wsev[t], backup_count)
                      ELSE WriterFiles)
    /\ wpc' = [wpc EXCEPT ![t] = "fh_check"]
    /\ UNCHANGED <<lockVars, master_lock, is_closed, backup_count,
                   wrec, wsev, wlock, wfh, closerVars, written, nwrites, ncloses>>
    /\ UNCHANGED <<decVars, dedupVars, pipeVars, faultVars, parseVars, sessVars, recvVars, flushVars>>

\* _get_file_handle: `if self.is_closed` and `if severity not in self.file_handles`
WFhCheck(t) ==
    /\ wpc[t] = "fh_check"
    /\ IF is_closed
       THEN ReturnLocked(t)
       ELSE /\ wpc' = [wpc EXCEPT ![t] = IF wsev[t] \in DOMAIN file_handles
                                        THEN "fh_return" ELSE "fh_open"]
            /\ UNCHANGED <<lockOwner, wrec, wsev, wlock, wfh>>
    /\ UNCHANGED <<fileVars, locks, master_lock, is_closed, backup_count,
                   closerVars, written, nwrites, ncloses>>
    /\ UNCHANGED <<decVars, dedupVars, pipeVars, faultVars, parseVars, sessVars, recvVars, flushVars>>

\* _get_file_handle: `self.file_handles[severity] = open(filepath, 'a', ...)`
WFhOpen(t) ==
    /\ wpc[t] = "fh_open"
    /\ SetWriterFiles(OpenAppend(WriterFiles, wsev[t]))
    /\ wpc' = [wpc EXCEPT ![t] = "fh_return"]
    /\ UNCHANGED <<lockVars, master_lock, is_closed, backup_count,
                   wrec, wsev, wlock, wfh, closerVars, written, nwrites, ncloses>>
    /\ UNCHANGED <<decVars, dedupVars, pipeVars, faultVars, parseVars, sessVars, recvVars, flushVars>>

\* _get_file_handle: `return self.file_handles[severity]`, a KeyError once
\* close() has cleared the dict; write() logs it and returns
WFhReturn(t) ==
    /\ wpc[t] = "fh_return"
    /\ IF wsev[t] \in DOMAIN file_handles
       THEN /\ wfh' = [wfh EXCEPT ![t] = file_handles[wsev[t]]]
            /\ wpc' = [wpc EXCEPT ![t] = "dump"]
            /\ UNCHANGED <<lockOwner, wrec, wsev, wlock>>
       ELSE ReturnLocked(t)
    /\ UNCHANGED <<fileVars, locks, master_lock, is_closed, backup_count,
                   closerVars, written, nwrites, ncloses>>
    /\ UNCHANGED <<decVars, dedupVars, pipeVars, faultVars, parseVars, sessVars, recvVars, flushVars>>

\* write: `json.dump(parsed_message, file_handle)`, a ValueError on a closed
\* file object; write() logs it and returns
WDump(t) ==
    /\ wpc[t] = "dump"
    /\ IF handles[wfh[t]].closed
       THEN /\ ReturnLocked(t)
            /\ UNCHANGED fileVars
       ELSE /\ SetWriterFiles(JsonDump(WriterFiles, wfh[t], wrec[t]))
            /\ wpc' = [wpc EXCEPT ![t] = "newline"]
            /\ UNCHANGED <<lockOwner, wrec, wsev, wlock, wfh>>
    /\ UNCHANGED <<locks, master_lock, is_closed, backup_count,
                   closerVars, written, nwrites, ncloses>>
    /\ UNCHANGED <<decVars, dedupVars, pipeVars, faultVars, parseVars, sessVars, recvVars, flushVars>>

\* write: `file_handle.write('\n'); file_handle.flush()`, then the return
WNewline(t) ==
    /\ wpc[t] = "newline"
    /\ IF handles[wfh[t]].closed
       THEN UNCHANGED fileVars
       ELSE SetWriterFiles(WriteNewlineFlush(WriterFiles, wfh[t]))
    /\ ReturnLocked(t)
    /\ UNCHANGED <<locks, master_lock, is_closed, backup_count,
                   closerVars, written, nwrites, ncloses>>
    /\ UNCHANGED <<decVars, dedupVars, pipeVars, faultVars, parseVars, sessVars, recvVars, flushVars>>

\* close: `with self.master_lock`, `if self.is_closed`, `self.is_closed = True`
CStart ==
    /\ cpc = "idle"
    /\ ncloses < MaxCloses
    /\ master_lock = "free"
    /\ ncloses' = ncloses + 1
    /\ IF is_closed
       THEN UNCHANGED <<master_lock, is_closed, cpc>>
       ELSE /\ master_lock' = "closer"
            /\ is_closed' = TRUE
            /\ cpc' = "snapshot"
    /\ UNCHANGED <<fileVars, lockVars, backup_count, wthreadVars,
                   ctodo, cpick, cacquired, written, nwrites>>
    /\ UNCHANGED <<decVars, dedupVars, pipeVars, faultVars, parseVars, sessVars, recvVars, flushVars>>

\* close: `list(self.locks.keys())`
CSnapshot ==
    /\ cpc = "snapshot"
    /\ ctodo' = LockKeys(locks)
    /\ cpc' = "pick"
    /\ UNCHANGED <<fileVars, lockVars, master_lock, is_closed, backup_count, wthreadVars,
                   cpick, cacquired, written, nwrites, ncloses>>
    /\ UNCHANGED <<decVars, dedupVars, pipeVars, faultVars, parseVars, sessVars, recvVars, flushVars>>

\* close: the next `lock = self.locks[severity]`, or the end of the loop
CPick ==
    /\ cpc = "pick"
    /\ IF ctodo = <<>>
       THEN /\ cpc' = "close_all"
            /\ UNCHANGED <<ctodo, cpick>>
       ELSE /\ cpick' = LockOf(locks, Head(ctodo))
            /\ ctodo' = Tail(ctodo)
            /\ cpc' = "acquire"
    /\ UNCHANGED <<fileVars, lockVars, master_lock, is_closed, backup_count, wthreadVars,
                   cacquired, written, nwrites, ncloses>>
    /\ UNCHANGED <<decVars, dedupVars, pipeVars, faultVars, parseVars, sessVars, recvVars, flushVars>>

\* close: `lock.acquire(); acquired_locks.append(lock)`
CAcquire ==
    /\ cpc = "acquire"
    /\ lockOwner[cpick] = "free"
    /\ lockOwner' = [lockOwner EXCEPT ![cpick] = "closer"]
    /\ cacquired' = cacquired \cup {cpick}
    /\ cpick' = 0
    /\ cpc' = "pick"
    /\ UNCHANGED <<fileVars, locks, master_lock, is_closed, backup_count, wthreadVars,
                   ctodo, written, nwrites, ncloses>>
    /\ UNCHANGED <<decVars, dedupVars, pipeVars, faultVars, parseVars, sessVars, recvVars, flushVars>>

\* close: flush and close the file objects, `self.file_handles.clear()`
CCloseAll ==
    /\ cpc = "close_all"
    /\ SetWriterFiles(CloseAll(WriterFiles))
    /\ cpc' = "release"
    /\ UNCHANGED <<lockVars, master_lock, is_closed, backup_count, wthreadVars,
                   ctodo, cpick, cacquired, written, nwrites, ncloses>>
    /\ UNCHANGED <<decVars, dedupVars, pipeVars, faultVars, parseVars, sessVars, recvVars, flushVars>>

\* close: the `finally` releases the acquired locks, then the master lock
CRelease ==
    /\ cpc = "release"
    /\ lockOwner' = [l \in DOMAIN lockOwner |->
                        IF l \in cacquired THEN "free" ELSE lockOwner[l]]
    /\ cacquired' = {}
    /\ master_lock' = "free"
    /\ cpc' = "idle"
    /\ UNCHANGED <<fileVars, locks, is_closed, backup_count, wthreadVars,
                   ctodo, cpick, written, nwrites, ncloses>>
    /\ UNCHANGED <<decVars, dedupVars, pipeVars, faultVars, parseVars, sessVars, recvVars, flushVars>>

\* flush_all: `for severity, lock in self.locks.items()` makes the iterator
FStart ==
    /\ fpc = "idle"
    /\ nflushes < MaxFlushes
    /\ nflushes' = nflushes + 1
    /\ fsize' = Len(locks)
    /\ fpos' = 0
    /\ fpc' = "next"
    /\ UNCHANGED <<fsev, flock>>
    /\ UNCHANGED <<decVars, dedupVars, writerVars, pipeVars, faultVars, parseVars, sessVars, recvVars>>

\* the end of flush_all, by the end of the loop or by an exception
FReturn ==
    /\ fpc' = "idle"
    /\ fsize' = 0
    /\ fpos' = 0
    /\ fsev' = ""
    /\ flock' = 0

\* flush_all: the iterator's next entry; a dict whose size has changed since
\* the iterator was made raises RuntimeError, which flush_all lets through
FNext ==
    /\ fpc = "next"
    /\ IF Len(locks) # fsize \/ fpos >= Len(locks)
       THEN FReturn
       ELSE /\ fsev' = locks[fpos + 1].severity
            /\ flock' = locks[fpos + 1].lock
            /\ fpos' = fpos + 1
            /\ fpc' = "acquire"
            /\ UNCHANGED fsize
    /\ UNCHANGED nflushes
    /\ UNCHANGED <<decVars, dedupVars, writerVars, pipeVars, faultVars, parseVars, sessVars, recvVars>>

\* flush_all: `with lock` acquires the lock
FAcquire ==
    /\ fpc = "acquire"
    /\ lockOwner[flock] = "free"
    /\ lockOwner' = [lockOwner EXCEPT ![flock] = "flusher"]
    /\ fpc' = "flush"
    /\ UNCHANGED <<fsize, fpos, fsev, flock, nflushes>>
    /\ UNCHANGED <<fileVars, locks, master_lock, is_closed, backup_count, wthreadVars,
                   closerVars, written, nwrites, ncloses>>
    /\ UNCHANGED <<decVars, dedupVars, pipeVars, faultVars, parseVars, sessVars, recvVars>>

\* flush_all: `if severity in self.file_handles: ....flush()`, whose
\* exceptions are logged, and the end of `with lock`
FFlush ==
    /\ fpc = "flush"
    /\ IF fsev \in DOMAIN file_handles
       THEN SetWriterFiles(FlushHandle(WriterFiles, file_handles[fsev]))
       ELSE UNCHANGED fileVars
    /\ lockOwner' = [lockOwner EXCEPT ![flock] = "free"]
    /\ fpc' = "next"
    /\ fsev' = ""
    /\ flock' = 0
    /\ UNCHANGED <<fsize, fpos, nflushes>>
    /\ UNCHANGED <<locks, master_lock, is_closed, backup_count, wthreadVars,
                   closerVars, written, nwrites, ncloses>>
    /\ UNCHANGED <<decVars, dedupVars, pipeVars, faultVars, parseVars, sessVars, recvVars>>

\* __init__ with backup_count = bc, on an empty log directory
InitWriter(bc) ==
    /\ dir = EmptyMap
    /\ inodes = <<>>
    /\ file_handles = EmptyMap
    /\ handles = <<>>
    /\ locks = <<>>
    /\ lockOwner = <<>>
    /\ master_lock = "free"
    /\ is_closed = FALSE
    /\ backup_count = bc
    /\ wpc = [t \in WThreads |-> "idle"]
    /\ wrec = [t \in WThreads |-> NoRec]
    /\ wsev = [t \in WThreads |-> ""]
    /\ wlock = [t \in WThreads |-> 0]
    /\ wfh = [t \in WThreads |-> 0]
    /\ cpc = "idle"
    /\ ctodo = <<>>
    /\ cpick = 0
    /\ cacquired = {}
    /\ written = <<>>
    /\ nwrites = 0
    /\ ncloses = 0

InitFault == failed = <<>>

\* no flush_all call has been made
InitFlush ==
    /\ fpc = "idle"
    /\ fsize = 0
    /\ fpos = 0
    /\ fsev = ""
    /\ flock = 0
    /\ nflushes = 0

\* one thread: every write() and close() runs to its end before the next
NextWriter ==
    \/ \E parsed_message \in WriteRecords : Write(parsed_message)
    \/ Close

\* one thread writing while I/O errors come and go
NextWriterFault ==
    \/ \E parsed_message \in FaultRecords : Write(parsed_message)
    \/ \E parsed_message \in FaultRecords, step \in FaultSteps :
            WriteFault(parsed_message, step)
    \/ Close

\* one thread writing records of unknown severities
NextWriterUnknown ==
    \/ \E parsed_message \in UnknownRecords : Write(parsed_message)
    \/ Close

\* writer threads and a closing thread, interleaved
NextWriterConc ==
    \/ \E t \in WThreads, parsed_message \in ConcRecords : WStart(t, parsed_message)
    \/ \E t \in WThreads : WLockCheck(t)
    \/ \E t \in WThreads : WLockCreate(t)
    \/ \E t \in WThreads : WLockReturn(t)
    \/ \E t \in WThreads : WAcquire(t)
    \/ \E t \in WThreads : WRecheck(t)
    \/ \E t \in WThreads : WRotate(t)
    \/ \E t \in WThreads : WFhCheck(t)
    \/ \E t \in WThreads : WFhOpen(t)
    \/ \E t \in WThreads : WFhReturn(t)
    \/ \E t \in WThreads : WDump(t)
    \/ \E t \in WThreads : WNewline(t)
    \/ CStart
    \/ CSnapshot
    \/ CPick
    \/ CAcquire
    \/ CCloseAll
    \/ CRelease

\* the steps of a write() call after its first, of close() after its first,
\* and of flush_all() after its first
WriteStep(t) ==
    \/ WLockCheck(t) \/ WLockCreate(t) \/ WLockReturn(t) \/ WAcquire(t) \/ WRecheck(t)
    \/ WRotate(t) \/ WFhCheck(t) \/ WFhOpen(t) \/ WFhReturn(t) \/ WDump(t) \/ WNewline(t)

CloseStep == CSnapshot \/ CPick \/ CAcquire \/ CCloseAll \/ CRelease

FlushStep == FNext \/ FAcquire \/ FFlush

\* writer threads, a closing thread and a thread in flush_all, interleaved
NextWriterLive ==
    \/ \E t \in WThreads, parsed_message \in ConcRecords :
            nwrites < MaxLiveWrites /\ WStart(t, parsed_message)
    \/ \E t \in WThreads : WriteStep(t)
    \/ CStart
    \/ CloseStep
    \/ FStart
    \/ FlushStep

----------------------------------------------------------------------------
(***************************************************************************)
(* SyslogParser (syslog_parser.py)                                         *)
(*                                                                         *)
(* A text is a string; Char(s, i) is its i-th character, counted from 1.   *)
(* The character classes are those of Python's re on the ASCII characters. *)
(* Each pattern is anchored at both ends and its groups are separated by   *)
(* characters the neighbouring groups cannot match, so the greedy match is *)
(* the only candidate: a pattern matches iff the greedy scan below does.   *)
(***************************************************************************)
SEVERITY_MAP ==
    <<"emergency", "alert", "critical", "error", "warning", "notice", "info", "debug">>

FACILITY_MAP ==
    <<"kern", "user", "mail", "daemon", "auth", "syslog", "lpr", "news",
      "uucp", "cron", "authpriv", "ftp", "ntp", "security", "console", "solaris-cron",
      "local0", "local1", "local2", "local3", "local4", "local5", "local6", "local7">>

Char(s, i) == SubSeq(s, i, i)

\* \d
DigitChars == {"0", "1", "2", "3", "4", "5", "6", "7", "8", "9"}

\* \s
SpaceChars == {" ", "\t", "\n", "\r", "\f"}

\* \w
WordChars ==
    {Char("abcdefghijklmnopqrstuvwxyzABCDEFGHIJKLMNOPQRSTUVWXYZ_", i) : i \in 1..53}
        \cup DigitChars

DigitValue(c) == CHOOSE v \in 0..9 : Char("0123456789", v + 1) = c

\* int(digits)
RECURSIVE StrToInt(_)
StrToInt(digits) ==
    IF Len(digits) = 0 THEN 0
    ELSE 10 * StrToInt(SubSeq(digits, 1, Len(digits) - 1))
            + DigitValue(Char(digits, Len(digits)))

\* the end of the longest run of characters of a class that starts at i:
\* the first position from i on that holds no character of the class
RunEnd(s, i, class) ==
    MinOf({j \in i..(Len(s) + 1) : j = Len(s) + 1 \/ Char(s, j) \notin class})

\* \S+ from i: the first position from i on that holds a space character
NonSpaceEnd(s, i) ==
    MinOf({j \in i..(Len(s) + 1) : j = Len(s) + 1 \/ Char(s, j) \in SpaceChars})

NoMatch == [ok |-> FALSE]

\* ^<(\d+)>
MatchPri(s) ==
    LET e == RunEnd(s, 2, DigitChars)
    IN  IF /\ Len(s) >= 1 /\ Char(s, 1) = "<"
           /\ e > 2 /\ e <= Len(s) /\ Char(s, e) = ">"
        THEN [ok |-> TRUE, pri |-> SubSeq(s, 2, e - 1), next |-> e + 1]
        ELSE NoMatch

\* (.*)$ on the rest of the text: `.` matches no newline and `$` matches at
\* the end or in front of a newline that ends the text
MatchRest(rest) ==
    LET newlines == {j \in 1..Len(rest) : Char(rest, j) = "\n"}
    IN  IF newlines = {} THEN [ok |-> TRUE, msg |-> rest]
        ELSE IF newlines = {Len(rest)}
        THEN [ok |-> TRUE, msg |-> SubSeq(rest, 1, Len(rest) - 1)]
        ELSE NoMatch

\* n times (\S+)\s+ from i
RECURSIVE MatchTokens(_, _, _)
MatchTokens(s, i, n) ==
    IF n = 0 THEN [ok |-> TRUE, next |-> i, tokens |-> <<>>]
    ELSE LET e == NonSpaceEnd(s, i)
             w == RunEnd(s, e, SpaceChars)
         IN  IF e = i \/ w = e THEN NoMatch
             ELSE LET r == MatchTokens(s, w, n - 1)
                  IN  IF r.ok
                      THEN [ok |-> TRUE, next |-> r.next,
                            tokens |-> <<SubSeq(s, i, e - 1)>> \o r.tokens]
                      ELSE NoMatch

\* RFC5424_PATTERN.match(message): the groups of the match
RFC5424_PATTERN(message) ==
    LET p == MatchPri(message)
        ve == RunEnd(message, p.next, DigitChars)
        w == RunEnd(message, ve, SpaceChars)
        t == MatchTokens(message, w, 5)
        sde == NonSpaceEnd(message, t.next)
        k == RunEnd(message, sde, SpaceChars)
        m == MatchRest(SubSeq(message, k, Len(message)))
    IN  IF /\ p.ok /\ ve > p.next /\ w > ve /\ t.ok /\ sde > t.next /\ m.ok
        THEN [ok |-> TRUE, pri |-> p.pri, ver |-> SubSeq(message, p.next, ve - 1),
              timestamp |-> t.tokens[1], hostname |-> t.tokens[2], app |-> t.tokens[3],
              procid |-> t.tokens[4], msgid |-> t.tokens[5],
              sd |-> SubSeq(message, t.next, sde - 1), msg |-> m.msg]
        ELSE NoMatch

\* RFC3164_PATTERN.match(message): the groups of the match
RFC3164_PATTERN(message) ==
    LET p == MatchPri(message)
        a == p.next
        w1 == RunEnd(message, a + 3, SpaceChars)
        d == RunEnd(message, w1, DigitChars)
        w2 == RunEnd(message, d, SpaceChars)
        te == w2 + 8
        w3 == RunEnd(message, te, SpaceChars)
        he == NonSpaceEnd(message, w3)
        w4 == RunEnd(message, he, SpaceChars)
        m == MatchRest(SubSeq(message, w4, Len(message)))
    IN  IF /\ p.ok
           /\ a + 2 <= Len(message)
           /\ \A j \in a..(a + 2) : Char(message, j) \in WordChars
           /\ w1 > a + 3
           /\ d - w1 \in {1, 2}
           /\ w2 > d
           /\ te - 1 <= Len(message)
           /\ \A j \in {w2, w2 + 1, w2 + 3, w2 + 4, w2 + 6, w2 + 7} :
                Char(message, j) \in DigitChars
           /\ Char(message, w2 + 2) = ":" /\ Char(message, w2 + 5) = ":"
           /\ w3 > te
           /\ he > w3
           /\ w4 > he
           /\ m.ok
        THEN [ok |-> TRUE, pri |-> p.pri, timestamp |-> SubSeq(message, a, te - 1),
              hostname |-> SubSeq(message, w3, he - 1), msg |-> m.msg]
        ELSE NoMatch

\* re.match(r'^<(\d+)>(.*)$', message)
PriMatch(message) ==
    LET p == MatchPri(message)
        m == MatchRest(SubSeq(message, p.next, Len(message)))
    IN  IF p.ok /\ m.ok THEN [ok |-> TRUE, pri |-> p.pri, msg |-> m.msg] ELSE NoMatch

\* a lookup that gives an index past the table the table's last name
FacilityOfClamped(pri) ==
    IF pri \div 8 \in 0..23 THEN FACILITY_MAP[(pri \div 8) + 1] ELSE FACILITY_MAP[24]

\* the facility looked up by the remainder instead of the quotient
FacilityOfMod(pri) == FACILITY_MAP[(pri % 24) + 1]

\* FACILITY_MAP.get(pri >> 3, 'unknown')
FacilityOf(pri) == IF pri \div 8 \in 0..23 THEN FACILITY_MAP[(pri \div 8) + 1] ELSE "unknown"

\* a lookup that gives 'unknown' together with an unknown facility
SeverityOfRanged(pri) ==
    IF pri \div 8 \in 0..23 THEN SEVERITY_MAP[(pri % 8) + 1] ELSE "unknown"

\* SEVERITY_MAP.get(pri & 0x07, 'unknown')
SeverityOf(pri) == SEVERITY_MAP[(pri % 8) + 1]

\* datetime.isoformat() of a clock value
IsoFormat(clock) == ToString(clock)

\* _parse_rfc5424
ParseRfc5424(match, raw) ==
    [priority |-> StrToInt(match.pri),
     facility |-> FacilityOf(StrToInt(match.pri)),
     severity |-> SeverityOf(StrToInt(match.pri)),
     version |-> match.ver,
     timestamp |-> match.timestamp,
     hostname |-> match.hostname,
     app_name |-> match.app,
     proc_id |-> match.procid,
     msg_id |-> match.msgid,
     structured_data |-> match.sd,
     message |-> match.msg,
     raw |-> raw,
     format |-> "RFC5424"]

\* _parse_rfc3164
ParseRfc3164(match, raw) ==
    [priority |-> StrToInt(match.pri),
     facility |-> FacilityOf(StrToInt(match.pri)),
     severity |-> SeverityOf(StrToInt(match.pri)),
     timestamp |-> match.timestamp,
     hostname |-> match.hostname,
     message |-> match.msg,
     raw |-> raw,
     format |-> "RFC3164"]

\* sys.int_info.default_max_str_digits, scaled down: int() of a longer run of
\* digits raises ValueError
IntRaises(digits) == Len(digits) > int_max_str_digits

\* an exception that leaves the try block of parse()
Raised(e) == [raised |-> e]

\* parse(message), the grammars tried in the order 3164, 5424
ParseTry3164First(message, clock) ==
    IF RFC3164_PATTERN(message).ok
    THEN IF IntRaises(RFC3164_PATTERN(message).pri) THEN Raised("ValueError")
         ELSE ParseRfc3164(RFC3164_PATTERN(message), message)
    ELSE IF RFC5424_PATTERN(message).ok
    THEN IF IntRaises(RFC5424_PATTERN(message).pri) THEN Raised("ValueError")
         ELSE ParseRfc5424(RFC5424_PATTERN(message), message)
    ELSE IF PriMatch(message).ok
    THEN IF IntRaises(PriMatch(message).pri) THEN Raised("ValueError")
         ELSE [priority |-> StrToInt(PriMatch(message).pri),
               facility |-> FacilityOf(StrToInt(PriMatch(message).pri)),
               severity |-> SeverityOf(StrToInt(PriMatch(message).pri)),
               message |-> PriMatch(message).msg,
               raw |-> message,
               timestamp |-> IsoFormat(clock)]
    ELSE [priority |-> 13,
          facility |-> "user",
          severity |-> "notice",
          message |-> message,
          raw |-> message,
          timestamp |-> IsoFormat(clock)]

\* the try block of parse(message), called when the clock shows `clock`: the
\* record it returns, or the exception that leaves it
ParseTry(message, clock) ==
    IF RFC5424_PATTERN(message).ok
    THEN IF IntRaises(RFC5424_PATTERN(message).pri) THEN Raised("ValueError")
         ELSE ParseRfc5424(RFC5424_PATTERN(message), message)
    ELSE IF RFC3164_PATTERN(message).ok
    THEN IF IntRaises(RFC3164_PATTERN(message).pri) THEN Raised("ValueError")
         ELSE ParseRfc3164(RFC3164_PATTERN(message), message)
    ELSE IF PriMatch(message).ok
    THEN IF IntRaises(PriMatch(message).pri) THEN Raised("ValueError")
         ELSE [priority |-> StrToInt(PriMatch(message).pri),
               facility |-> FacilityOf(StrToInt(PriMatch(message).pri)),
               severity |-> SeverityOf(StrToInt(PriMatch(message).pri)),
               message |-> PriMatch(message).msg,
               raw |-> message,
               timestamp |-> IsoFormat(clock)]
    ELSE [priority |-> 13,
          facility |-> "user",
          severity |-> "notice",
          message |-> message,
          raw |-> message,
          timestamp |-> IsoFormat(clock)]

\* parse(message) without its except clause: the exception reaches the caller
ParseNoExcept(message, clock) == ParseTry(message, clock)

\* SyslogParser.parse(message), called when the clock shows `clock`
Parse(message, clock) ==
    LET r == ParseTry(message, clock)
    IN  IF "raised" \in DOMAIN r
        THEN [priority |-> 13,
              facility |-> "user",
              severity |-> "error",
              message |-> message,
              raw |-> message,
              parse_error |-> r.raised,
              timestamp |-> IsoFormat(clock)]
        ELSE r

----------------------------------------------------------------------------
(***************************************************************************)
(* The receivers: _process_message of both transports, and the handler of  *)
(* one stream session (tls_syslog_receiver.py, udp_syslog_receiver.py)     *)
(***************************************************************************)
\* the addresses datagrams come from
SourceIps == {"1.1.1.1", "2.2.2.2"}

\* the datagrams of the model: a priority-only text, an RFC 3164 text with
\* the same priority and message as it, and an RFC 5424 text with the same
\* message and another priority
Texts ==
    { "<14>m",
      "<14>Jan 15 10:30:45 h m",
      "<11>1 t h a p i - m" }

\* the peer address of the stream session
SessionIp == "1.1.1.1"

\* the bytes the peer of the stream session sends: "0", "1" and the space
SessionBytes == {48, 49, SP}

SessionChunks(n) == UNION {[1..k -> SessionBytes] : k \in 1..(MaxStream - n)}

\* the character of a code point of the model; "?" stands for U+FFFD
CharOf(code) ==
    CASE code = 9 -> "\t"
      [] code = 10 -> "\n"
      [] code >= 32 /\ code <= 63 -> Char(" !\"#$%&'()*+,-./0123456789:;<=>?", code - 31)
      [] OTHER -> "?"

\* a decoded record as the str the parser reads
RECURSIVE ToText(_)
ToText(codes) ==
    IF codes = <<>> THEN "" ELSE CharOf(Head(codes)) \o ToText(Tail(codes))

\* the record list of a feed call, as strs
TextsOf(messages) == [i \in 1..Len(messages) |-> ToText(messages[i])]

\* d.get(k, default)
Get(d, k, default) == IF k \in DOMAIN d THEN d[k] ELSE default

\* a dedup key made of the raw text instead of the parsed message
DedupKeyRaw(source_ip, parsed) == <<source_ip, parsed.priority, parsed.raw>>

\* the arguments of should_write in _process_message
DedupKey(source_ip, parsed) ==
    <<source_ip, Get(parsed, "priority", 0), Get(parsed, "message", "")>>

\* parsed['source_ip'] = source_ip; parsed['received_at'] = ...isoformat()
Stamped(parsed, source_ip, clock) ==
    [source_ip |-> source_ip, received_at |-> IsoFormat(clock)] @@ parsed

\* parser.parse(message) for each datagram of the model at each time
Parsed == [message \in Texts, clock \in 0..MaxPipelineTime |-> Parse(message, clock)]

\* _process_message(message, source_ip) from call to return, by one thread;
\* parsed is the value of self.parser.parse(message)
ProcessCall(message, source_ip, parsed) ==
    LET key == DedupKey(source_ip, parsed)
        kept == ShouldWriteReturns(seen_messages, key, now)
    IN  /\ seen_messages' = ShouldWriteSeen(seen_messages, key, now)
        /\ RecordCall(key, now, kept)
        /\ IF kept
           THEN WriteCall(Stamped(parsed, source_ip, now))
           ELSE UNCHANGED writerVars
        /\ received' = Append(received, [source_ip |-> source_ip, message |-> message,
                                         at |-> now])
        /\ UNCHANGED <<now, dpc, dkey, dtime, rpc, rtime, keptAt, ncalls>>

\* UDPSyslogReceiver.start: one datagram received and processed
ProcessMessage(message, source_ip) ==
    /\ Len(received) < MaxMessages
    /\ ProcessCall(message, source_ip, Parsed[message, now])
    /\ UNCHANGED <<decVars, pending, faultVars, parseVars, sessVars, recvVars, flushVars>>

\* _process_message whose record is kept and whose write() call meets an
\* I/O error at `step`
ProcessMessageFault(message, source_ip, step) ==
    LET parsed == Parsed[message, now]
        key == DedupKey(source_ip, parsed)
    IN  /\ Len(received) < MaxMessages
        /\ ShouldWriteReturns(seen_messages, key, now)
        /\ seen_messages' = ShouldWriteSeen(seen_messages, key, now)
        /\ RecordCall(key, now, TRUE)
        /\ WriteFaultCall(Stamped(parsed, source_ip, now), step)
        /\ received' = Append(received, [source_ip |-> source_ip, message |-> message,
                                         at |-> now])
        /\ UNCHANGED <<now, dpc, dkey, dtime, rpc, rtime, keptAt, ncalls>>
        /\ UNCHANGED <<decVars, pending, parseVars, sessVars, recvVars, flushVars>>

\* the record the handler's for loop takes next: the last one
PendingLast(messages) == messages[Len(messages)]

\* the record the handler's for loop takes next
PendingFirst(messages) == Head(messages)

\* _handle_connection: data = sock.recv(4096); messages = reader.feed(data)
SessionFeed(data) ==
    /\ session = "open"
    /\ pending = <<>>
    /\ FeedCall(data)
    /\ pending' = IF FeedResult(buffer, data).returns
                  THEN TextsOf(FeedResult(buffer, data).messages)
                  ELSE <<>>
    /\ UNCHANGED <<dedupVars, writerVars, received, faultVars, parseVars, sessVars, recvVars, flushVars>>

\* _handle_connection: one turn of `for message in messages`
SessionDeliver ==
    /\ session = "open"
    /\ pending # <<>>
    /\ ProcessCall(PendingFirst(pending), SessionIp, Parse(PendingFirst(pending), now))
    /\ pending' = Tail(pending)
    /\ UNCHANGED <<decVars, faultVars, parseVars, sessVars, recvVars, flushVars>>

\* _handle_connection: recv returns b'' or raises, the loop is left by
\* `break` and the finally clause closes the socket
SessionEnd ==
    /\ session = "open"
    /\ pending = <<>>
    /\ session' = "closed"
    /\ UNCHANGED <<decVars, dedupVars, writerVars, pipeVars, faultVars, parseVars, recvVars, flushVars>>

InitPipeline ==
    /\ received = <<>>
    /\ pending = <<>>
    /\ session = "open"

\* time passes while a receiver runs
PipelineTick ==
    /\ now < MaxPipelineTime
    /\ Tick

\* should_write called by one thread while time passes, with no cleanup pass
NextDedupKeys ==
    \/ \E args \in KeyArgs : ShouldWriteCall(args[1], args[2], args[3])
    \/ PipelineTick

\* the datagram receiver while I/O errors come and go and the writer is closed
NextPipelineFault ==
    \/ \E message \in Texts, source_ip \in SourceIps : ProcessMessage(message, source_ip)
    \/ \E message \in Texts, source_ip \in SourceIps, step \in FaultSteps :
            ProcessMessageFault(message, source_ip, step)
    \/ Close
    \/ PipelineTick

\* the datagram receiver, one datagram after the other
NextPipeline ==
    \/ \E message \in Texts, source_ip \in SourceIps : ProcessMessage(message, source_ip)
    \/ PipelineTick

\* the handler thread of one stream session
NextSession ==
    \/ \E data \in SessionChunks(Len(fed)) : SessionFeed(data)
    \/ SessionDeliver
    \/ SessionEnd
    \/ PipelineTick

----------------------------------------------------------------------------
(***************************************************************************)
(* TLSSyslogReceiver: start(), _handle_connection and stop()               *)
(* (tls_syslog_receiver.py)                                                *)
(***************************************************************************)
\* the peers that may connect
Peers == {"p1", "p2"}

NoPeer == "none"

\* everything but the receiver
nonRecvVars == <<decVars, dedupVars, writerVars, pipeVars, faultVars, parseVars, sessVars,
                 flushVars>>

\* sock.close() on every session socket, whoever owns it
CloseSocketAll(socks, p) == [q \in Peers |-> "closed"]

\* sock.close() on the session socket of p
CloseSocket(socks, p) == [socks EXCEPT ![p] = "closed"]

\* ---- the peers
\* a peer connects to the listening socket
PConnect(p) ==
    /\ spc[p] = "away"
    /\ listener = "open"
    /\ spc' = [spc EXCEPT ![p] = "pending"]
    /\ UNCHANGED <<running, apc, acur, listener, ssock, connections, stpc, served>>
    /\ UNCHANGED nonRecvVars

\* ---- start()
\* line 37: self.running = True
AStart ==
    /\ apc = "new"
    /\ running' = TRUE
    /\ apc' = "setup"
    /\ UNCHANGED <<acur, listener, spc, ssock, connections, stpc, served>>
    /\ UNCHANGED nonRecvVars

\* lines 40-59: the context, then socket, bind, listen, setblocking(False)
AListen ==
    /\ apc = "setup"
    /\ listener' = "open"
    /\ apc' = "loop"
    /\ UNCHANGED <<running, acur, spc, ssock, connections, stpc, served>>
    /\ UNCHANGED nonRecvVars

\* line 64: while self.running
ALoop ==
    /\ apc = "loop"
    /\ apc' = IF running THEN "select" ELSE "closing"
    /\ UNCHANGED <<running, acur, listener, spc, ssock, connections, stpc, served>>
    /\ UNCHANGED nonRecvVars

\* lines 66-67: select returns nothing readable after its second
ASelectTimeout ==
    /\ apc = "select"
    /\ \A p \in Peers : spc[p] # "pending"
    /\ apc' = "loop"
    /\ UNCHANGED <<running, acur, listener, spc, ssock, connections, stpc, served>>
    /\ UNCHANGED nonRecvVars

\* lines 66-68: select returns the listening socket, accept returns a peer
AAccept(p) ==
    /\ apc = "select"
    /\ spc[p] = "pending"
    /\ acur' = p
    /\ spc' = [spc EXCEPT ![p] = "handshake"]
    /\ ssock' = [ssock EXCEPT ![p] = "open"]
    /\ apc' = "handshake"
    /\ UNCHANGED <<running, listener, connections, stpc, served>>
    /\ UNCHANGED nonRecvVars

\* lines 73-74: wrap_socket returns, setblocking(False)
AHandshakeOk ==
    /\ apc = "handshake"
    /\ apc' = "spawn"
    /\ UNCHANGED <<running, acur, listener, spc, ssock, connections, stpc, served>>
    /\ UNCHANGED nonRecvVars

\* lines 73, 86-92: wrap_socket raises (ssl.SSLError, or another error
\* caught by the outer except); the socket of the failed handshake is closed
AHandshakeFail ==
    /\ apc = "handshake"
    /\ ssock' = CloseSocket(ssock, acur)
    /\ spc' = [spc EXCEPT ![acur] = "failed"]
    /\ acur' = NoPeer
    /\ apc' = "loop"
    /\ UNCHANGED <<running, listener, connections, stpc, served>>
    /\ UNCHANGED nonRecvVars

\* lines 77-82: handler.start()
ASpawn ==
    /\ apc = "spawn"
    /\ spc' = [spc EXCEPT ![acur] = "loop"]
    /\ apc' = "register"
    /\ UNCHANGED <<running, acur, listener, ssock, connections, stpc, served>>
    /\ UNCHANGED nonRecvVars

\* lines 84-85: self.connections.append((tls_sock, handler)), under self.lock
ARegister ==
    /\ apc = "register"
    /\ connections' = Append(connections, acur)
    /\ acur' = NoPeer
    /\ apc' = "loop"
    /\ UNCHANGED <<running, listener, spc, ssock, stpc, served>>
    /\ UNCHANGED nonRecvVars

\* line 94: sock.close()
AClose ==
    /\ apc = "closing"
    /\ listener' = "closed"
    /\ apc' = "exited"
    /\ UNCHANGED <<running, acur, spc, ssock, connections, stpc, served>>
    /\ UNCHANGED nonRecvVars

Acceptor ==
    \/ AStart \/ AListen \/ ALoop \/ ASelectTimeout
    \/ (\E p \in Peers : AAccept(p))
    \/ AHandshakeOk \/ AHandshakeFail \/ ASpawn \/ ARegister \/ AClose

\* ---- _handle_connection of the peer p
\* line 101: while self.running; when it is false, the finally clause
HLoop(p) ==
    /\ spc[p] = "loop"
    /\ IF running
       THEN /\ spc' = [spc EXCEPT ![p] = "select"]
            /\ UNCHANGED ssock
       ELSE /\ spc' = [spc EXCEPT ![p] = "exited"]
            /\ ssock' = CloseSocket(ssock, p)
    /\ UNCHANGED <<running, apc, acur, listener, connections, stpc, served>>
    /\ UNCHANGED nonRecvVars

\* lines 102-104: select returns nothing readable; on a socket that stop()
\* closed it raises, and the finally clause runs
HSelectTimeout(p) ==
    /\ spc[p] = "select"
    /\ spc' = [spc EXCEPT ![p] = IF ssock[p] = "open" THEN "loop" ELSE "exited"]
    /\ UNCHANGED <<running, apc, acur, listener, ssock, connections, stpc, served>>
    /\ UNCHANGED nonRecvVars

\* line 102: select returns the socket
HReadable(p) ==
    /\ spc[p] = "select"
    /\ ssock[p] = "open"
    /\ spc' = [spc EXCEPT ![p] = "recv"]
    /\ UNCHANGED <<running, apc, acur, listener, ssock, connections, stpc, served>>
    /\ UNCHANGED nonRecvVars

\* lines 107-115: recv returns data; feed and _process_message
HRecvData(p) ==
    /\ spc[p] = "recv"
    /\ ssock[p] = "open"
    /\ served[p] < MaxServed
    /\ served' = [served EXCEPT ![p] = @ + 1]
    /\ spc' = [spc EXCEPT ![p] = "loop"]
    /\ UNCHANGED <<running, apc, acur, listener, ssock, connections, stpc>>
    /\ UNCHANGED nonRecvVars

\* lines 117-118: recv raises ssl.SSLWantReadError
HRecvWantRead(p) ==
    /\ spc[p] = "recv"
    /\ ssock[p] = "open"
    /\ spc' = [spc EXCEPT ![p] = "loop"]
    /\ UNCHANGED <<running, apc, acur, listener, ssock, connections, stpc, served>>
    /\ UNCHANGED nonRecvVars

\* lines 108-110, 119-127: recv returns b'' (peer EOF) or raises (read
\* error, peer reset, socket closed by stop()); break, then the finally clause
HRecvEnd(p) ==
    /\ spc[p] = "recv"
    /\ spc' = [spc EXCEPT ![p] = "exited"]
    /\ ssock' = CloseSocket(ssock, p)
    /\ UNCHANGED <<running, apc, acur, listener, connections, stpc, served>>
    /\ UNCHANGED nonRecvVars

Handler(p) ==
    \/ HLoop(p) \/ HSelectTimeout(p) \/ HReadable(p)
    \/ HRecvData(p) \/ HRecvWantRead(p) \/ HRecvEnd(p)

\* ---- stop()
\* line 170: self.running = False
StopStart ==
    /\ stpc = "idle"
    /\ running' = FALSE
    /\ stpc' = "closing"
    /\ UNCHANGED <<apc, acur, listener, spc, ssock, connections, served>>
    /\ UNCHANGED nonRecvVars

\* lines 171-176: under self.lock, sock.close() for every entry of self.connections
StopClose ==
    /\ stpc = "closing"
    /\ ssock' = [p \in Peers |->
                    IF \E i \in 1..Len(connections) : connections[i] = p
                    THEN "closed" ELSE ssock[p]]
    /\ stpc' = "done"
    /\ UNCHANGED <<running, apc, acur, listener, spc, connections, served>>
    /\ UNCHANGED nonRecvVars

Stopper == StopStart \/ StopClose

InitReceiver ==
    /\ running = FALSE
    /\ apc = "new"
    /\ acur = NoPeer
    /\ listener = "none"
    /\ spc = [p \in Peers |-> "away"]
    /\ ssock = [p \in Peers |-> "none"]
    /\ connections = <<>>
    /\ stpc = "idle"
    /\ served = [p \in Peers |-> 0]

\* the thread of start(), the handler threads, the thread that calls stop(),
\* and the peers
NextReceiver ==
    \/ Acceptor
    \/ \E p \in Peers : Handler(p)
    \/ Stopper
    \/ \E p \in Peers : PConnect(p)

----------------------------------------------------------------------------
(***************************************************************************)
(* SyslogParser.parse called on its own, on the texts of each grammar      *)
(***************************************************************************)
\* what follows <PRI> in a text of each grammar that carries a priority
Rfc5424Body == "1 t h a p i - m"

Rfc3164Body == "Jan 15 10:30:45 h m"

PriOnlyBody == "m"

PriBodies == {Rfc5424Body, Rfc3164Body, PriOnlyBody}

\* f"<{pri}>{body}"
PriText(pri, body) == "<" \o ToString(pri) \o ">" \o body

\* "1" * n
RECURSIVE Ones(_)
Ones(n) == IF n = 0 THEN "" ELSE "1" \o Ones(n - 1)

\* a PRI with more digits than int() converts
LongPri == Ones(int_max_str_digits + 1)

\* a text both RFC5424_PATTERN and RFC3164_PATTERN match
BothGrammarsText == "<14>123 4 10:30:45 h a b c d m"

\* texts with no leading <PRI>, texts whose <PRI> is followed by nothing or
\* by newlines, and texts whose PRI has leading zeros or too many digits
EdgeTexts ==
    { "", "m", "   \n\t  ", "Jan 15 10:30:45 h m", "<>Jan 15 10:30:45 h m", "<x>m",
      "<14", "14>m", " <14>m", "<-1>m", "<14>", "<14>m\n", "<14>a\nb", "<014>m",
      "<999>Jan 15 10:30:45 h m", BothGrammarsText }
        \cup {"<" \o LongPri \o ">" \o body : body \in PriBodies}

\* the texts of the three grammars, for each PRI
PriTexts == [pri \in 0..MaxPri, body \in PriBodies |-> PriText(pri, body)]

ParseTexts == {PriTexts[pri, body] : pri \in 0..MaxPri, body \in PriBodies} \cup EdgeTexts

\* parse() on each text at each clock value
ParsedTexts == [message \in ParseTexts, clock \in 0..MaxPipelineTime |-> Parse(message, clock)]

\* SyslogParser.parse(message)
ParseCall(message) ==
    /\ parse_message' = message
    /\ parse_result' = ParsedTexts[message, now]
    /\ UNCHANGED <<decVars, dedupVars, writerVars, pipeVars, faultVars, sessVars, recvVars, flushVars>>

InitParser ==
    /\ parse_message = ""
    /\ parse_result = <<>>

\* parse() called again and again while time passes
NextParser ==
    \/ \E message \in ParseTexts : ParseCall(message)
    \/ PipelineTick

----------------------------------------------------------------------------
(***************************************************************************)
(* Specifications                                                          *)
(***************************************************************************)
\* the default backup_count of __init__, scaled to the model
DefaultBackupCount == 1

Init ==
    /\ InitDecoder /\ InitDedup /\ InitWriter(DefaultBackupCount) /\ InitPipeline
    /\ InitFault /\ InitReceiver /\ InitParser /\ InitFlush

InitAnyBackupCount ==
    /\ InitDecoder /\ InitDedup /\ InitPipeline /\ InitFault /\ InitReceiver /\ InitParser
    /\ InitFlush
    /\ \E bc \in 0..MaxBackupCount : InitWriter(bc)

SpecDecoder == Init /\ [][NextDecoder]_vars

SpecDedup == Init /\ [][NextDedup]_vars

SpecDedupConc == Init /\ [][NextDedupConc]_vars

SpecDedupKeys == Init /\ [][NextDedupKeys]_vars

SpecDedupReaper == Init /\ [][NextDedupReaper]_vars

SpecWriter == InitAnyBackupCount /\ [][NextWriter]_vars

SpecWriterConc == Init /\ [][NextWriterConc]_vars

SpecWriterUnknown == Init /\ [][NextWriterUnknown]_vars

SpecWriterFault == Init /\ [][NextWriterFault]_vars

\* a thread that can take its next step eventually takes it; whether a call
\* is made at all is up to the caller
SpecWriterLive ==
    /\ Init /\ [][NextWriterLive]_vars
    /\ \A t \in WThreads : WF_vars(WriteStep(t))
    /\ WF_vars(CloseStep)
    /\ WF_vars(FlushStep)

SpecReceiver == Init /\ [][NextReceiver]_vars

\* every thread that can take a step eventually takes one; a select or a
\* handshake that can return does return
SpecReceiverLive ==
    /\ Init /\ [][NextReceiver]_vars
    /\ WF_vars(Acceptor)
    /\ \A p \in Peers : WF_vars(Handler(p))
    /\ WF_vars(Stopper)

SpecPipeline == Init /\ [][NextPipeline]_vars

SpecPipelineFault == Init /\ [][NextPipelineFault]_vars

SpecParser == Init /\ [][NextParser]_vars

SpecSession == Init /\ [][NextSession]_vars

----------------------------------------------------------------------------
(***************************************************************************)
(* The framing decoder's properties.                                       *)
(***************************************************************************)
\* the same bytes fed as one chunk to a fresh decoder
SingleFeed(stream) == FeedResult(<<>>, stream)

\* C1: chunk-invariance of feed: whatever the chunking, the records
\* returned over all feed calls are the records a fresh decoder returns when
\* the same bytes are fed in one call.  It is stated here for the streams
\* that fit the buffer (so that no overflow reset is involved) and for feed
\* calls that return.
C1_ChunkInvariance ==
    (Len(fed) <= max_buffer_size /\ ~hung /\ SingleFeed(fed).returns)
        => emitted = SingleFeed(fed).messages

\* A stream read by the wire grammar '<ASCII decimal length> SP <length
\* bytes>' with every length at most max_msg_len: the payloads of its
\* complete frames, the bytes of the frame still arriving, and whether the
\* stream is such frames followed by the beginning of one.
RECURSIVE FramesOf(_)
FramesOf(s) ==
    LET sp == Find(s, SP, 0)
        bad == [ok |-> FALSE, payloads |-> <<>>, rest |-> s]
    IN  IF s = <<>> THEN [ok |-> TRUE, payloads |-> <<>>, rest |-> <<>>]
        ELSE IF sp = -1
        THEN [ok |-> \A i \in 1..Len(s) : IsDigit(s[i]), payloads |-> <<>>, rest |-> s]
        ELSE IF sp = 0 \/ \E i \in 1..sp : ~IsDigit(s[i]) THEN bad
        ELSE LET n == DecimalValue(SubSeq(s, 1, sp))
             IN  IF n > max_msg_len THEN bad
                 ELSE IF Len(s) < sp + 1 + n
                 THEN [ok |-> TRUE, payloads |-> <<>>, rest |-> s]
                 ELSE LET r == FramesOf(SubSeq(s, sp + 2 + n, Len(s)))
                      IN  [ok |-> r.ok,
                           payloads |-> <<SubSeq(s, sp + 2, sp + 1 + n)>> \o r.payloads,
                           rest |-> r.rest]

\* C9: a well-formed stream of at most max_buffer_size bytes decodes
\* exactly, in any chunking: after every feed call the records returned so
\* far are the payloads of the frames whose last byte has arrived, each once
\* and in wire order (so a payload comes out of the call that delivers its
\* last byte, not earlier), no separator is needed between frames, and the
\* buffer holds only the frame still arriving (nothing after the last frame).
C9_WellFormedDecodesExactly ==
    LET f == FramesOf(fed)
    IN  (f.ok /\ Len(fed) <= max_buffer_size) =>
            /\ ~hung
            /\ emitted = [i \in 1..Len(f.payloads) |-> DecodeUtf8(f.payloads[i])]
            /\ buffer = f.rest

\* two consecutive frames, the second delivered by a later feed call than
\* the first, and nothing left in the buffer
C9_Witness ==
    /\ FramesOf(fed).ok /\ Len(fed) <= max_buffer_size
    /\ Len(FramesOf(fed).payloads) = 2
    /\ Len(emitted) = 2
    /\ buffer = <<>>

\* a frame with a payload, split over feed calls
C9_WitnessSplit ==
    /\ FramesOf(fed).ok /\ Len(fed) <= max_buffer_size
    /\ Len(emitted) = 1 /\ emitted[1] # <<>>

\* C10: the buffer never exceeds max_buffer_size after a feed call, and a
\* feed call whose bytes take the buffer over max_buffer_size empties the
\* buffer and returns no record.
C10_BufferCeiling ==
    /\ [](Len(buffer) <= max_buffer_size)
    /\ [][(~hung' /\ Len(buffer) + (Len(fed') - Len(fed)) > max_buffer_size)
            => (buffer' = <<>> /\ emitted' = emitted /\ overflow')]_vars

\* an overflowing feed call whose bytes held complete frames: nothing of
\* them is returned
C10_Witness ==
    /\ overflow
    /\ buffer = <<>>
    /\ FramesOf(fed).ok
    /\ Len(FramesOf(fed).payloads) > Len(emitted)

\* the bytes of the feed call of a step, and the buffer they are appended to
FedChunk == SubSeq(fed', Len(fed) + 1, Len(fed'))
Appended == buffer \o FedChunk

\* the records the feed call of a step returned
NewRecords == SubSeq(emitted', Len(emitted) + 1, Len(emitted'))

\* msg_len of every frame the extraction loop turns into a record, in order
RECURSIVE DeclaredLengths(_)
DeclaredLengths(buf) ==
    IF buf = <<>> THEN <<>>
    ELSE LET result == TryExtractOneMessage(buf)
         IN  IF result.kind = "None" \/ result.buffer = buf THEN <<>>
             ELSE (IF result.kind = "str"
                   THEN <<ParseInt(PySlice(buf, 0, Find(buf, SP, 0))).val>>
                   ELSE <<>>) \o DeclaredLengths(result.buffer)

\* C11: max_msg_len bounds every record: every record returned by feed
\* consists of exactly the declared number of payload bytes of its frame,
\* and that number is between 0 and max_msg_len inclusive.
C11_RecordHasDeclaredLength ==
    [][(fed' # fed /\ ~hung')
        => LET lens == IF Len(Appended) > max_buffer_size THEN <<>>
                       ELSE DeclaredLengths(Appended)
           IN  /\ Len(NewRecords) = Len(lens)
               /\ \A i \in 1..Len(lens) :
                    /\ lens[i] >= 0
                    /\ lens[i] <= max_msg_len
                    /\ Len(NewRecords[i]) = lens[i]]_vars

\* a non-empty string of ASCII digits
IsDecimal(s) == s # <<>> /\ \A i \in 1..Len(s) : IsDigit(s[i])

\* C12: whenever the bytes before the first space of the buffer are not a
\* non-empty string of ASCII digits, the decoder returns nothing for them,
\* discards exactly one byte from the buffer head and retries: the call
\* ends as the extraction loop does on the buffer without its first byte.
C12_MalformedLengthRecovery ==
    [][(/\ fed' # fed
        /\ Len(Appended) <= max_buffer_size
        /\ Find(Appended, SP, 0) # -1
        /\ ~IsDecimal(SubSeq(Appended, 1, Find(Appended, SP, 0))))
        => LET retry == ExtractAllMessages(Tail(Appended), <<>>)
           IN  /\ hung' = ~retry.returns
               /\ retry.returns => /\ buffer' = retry.buffer
                                    /\ emitted' = emitted \o retry.messages]_vars

----------------------------------------------------------------------------
(***************************************************************************)
(* The deduplicator's properties.                                          *)
(***************************************************************************)
\* C2: the dedup sequence law: of the should_write calls made with one key,
\* starting with no entry for it, the first returns True and every call
\* made less than the window after that first call returns False.
C2_SequenceLaw ==
    lastCall # <<>> =>
        /\ lastCall[1].first => lastCall[1].result
        /\ lastCall[1].within => ~lastCall[1].result

\* a call suppressed at a later instant than the first call of its key,
\* inside the window
C2_Witness ==
    /\ lastCall # <<>>
    /\ lastCall[1].within
    /\ ~lastCall[1].result
    /\ lastCall[1].time > firstCall[lastCall[1].key]

\* C3: the first-sight election is atomic: under every interleaving of
\* should_write calls, any two calls that return True for one key update
\* the map at wall-clock instants at least the window apart.
C3_AtomicElection ==
    \A k \in Keys : \A i, j \in DOMAIN keptAt[k] :
        i < j => keptAt[k][j] - keptAt[k][i] >= window_minutes

\* C14: dedup re-admission: a should_write call made at least the window
\* after the most recent call that returned True for its key returns True,
\* whatever was suppressed in between, and it starts a new window: an
\* identical call that follows immediately returns False.
C14_ReAdmission ==
    lastCall # <<>> =>
        LET c == lastCall[1]
        IN  /\ (~c.first /\ ~c.within) => c.result
            /\ c.result => firstCall[c.key] = c.time
            /\ (c.result /\ now = c.time)
                    => ~ShouldWriteReturns(seen_messages, c.key, now)

\* a key seen before was kept again, at least the window after the call that
\* started its previous window
C14_Witness ==
    /\ lastCall # <<>>
    /\ ~lastCall[1].first
    /\ ~lastCall[1].within
    /\ lastCall[1].result
    /\ lastCall[1].time >= window_minutes
    /\ now = lastCall[1].time

\* C15: the dedup frame condition: a should_write call that returns False
\* leaves the whole map unchanged; a call that returns True sets the entry
\* of its own key to the current wall-clock time and leaves every other
\* entry unchanged.
C15_FrameCondition ==
    [][lastCall' # lastCall
        => LET c == lastCall'[1]
           IN  IF c.result
               THEN /\ DOMAIN seen_messages' = (DOMAIN seen_messages) \cup {c.key}
                    /\ seen_messages'[c.key] = now
                    /\ \A k \in (DOMAIN seen_messages) \ {c.key} :
                            seen_messages'[k] = seen_messages[k]
               ELSE seen_messages' = seen_messages]_vars

\* a duplicate was suppressed later than its key's stored time, which
\* stayed as it was, with another key in the map
C15_Witness ==
    /\ lastCall # <<>>
    /\ ~lastCall[1].result
    /\ lastCall[1].key \in DOMAIN seen_messages
    /\ seen_messages[lastCall[1].key] < lastCall[1].time
    /\ Cardinality(DOMAIN seen_messages) >= 2

\* C16: a cleanup pass removes every entry whose stored timestamp is older
\* than its current_time minus the window and no other entry, and the
\* entries it keeps retain their timestamps.
C16_CleanupRemovesExpired ==
    [][(rpc = "read" /\ rpc' = "sleep")
        => /\ DOMAIN seen_messages' \subseteq DOMAIN seen_messages
           /\ \A k \in DOMAIN seen_messages :
                IF seen_messages[k] < rtime - window_minutes
                THEN k \notin DOMAIN seen_messages'
                ELSE /\ k \in DOMAIN seen_messages'
                     /\ seen_messages'[k] = seen_messages[k]]_vars

\* a cleanup pass has ended that removed one key and kept another, whose
\* entry is by now a window old
C16_Witness ==
    /\ rpc = "sleep"
    /\ \E k \in Keys : k \in DOMAIN firstCall /\ k \notin DOMAIN seen_messages
    /\ \E k \in DOMAIN seen_messages : now - seen_messages[k] >= window_minutes

----------------------------------------------------------------------------
(***************************************************************************)
(* The writer's properties.                                                *)
(***************************************************************************)
Last(s) == s[Len(s)]

\* a file read line by line: the complete lines, and what follows the last newline
RECURSIVE SplitLines(_, _, _)
SplitLines(content, lines, cur) ==
    IF content = <<>> THEN [lines |-> lines, tail |-> cur]
    ELSE IF Head(content).kind = "nl"
         THEN SplitLines(Tail(content), Append(lines, cur), <<>>)
         ELSE SplitLines(Tail(content), lines, Append(cur, Head(content)))

ReadLines(content) == SplitLines(content, <<>>, <<>>)

\* json.loads(line) yields an object: the line is the JSON text of one record
IsJsonLine(line) == Len(line) = 1 /\ line[1].kind = "json"

LineRecord(line) == line[1].rec

\* the lines write() produces for a sequence of records
RECURSIVE Serialize(_)
Serialize(recs) ==
    IF recs = <<>> THEN <<>>
    ELSE <<JsonToken(Head(recs)), NewlineToken>> \o Serialize(Tail(recs))

\* the records written so far that belong to the file of a severity
WrittenTo(severity) ==
    SelectSeq(written, LAMBDA rec : ValidSeverity(rec) = severity)

BackupIndexes(severity) ==
    {p[2] : p \in {q \in DOMAIN dir : q[1] = severity /\ q[2] >= 1}}

\* the content of <severity>.log.<i>, ..., <severity>.log.1, <severity>.log, oldest first
RECURSIVE OnDiskFrom(_, _)
OnDiskFrom(severity, i) ==
    IF i < 0 THEN <<>>
    ELSE (IF <<severity, i>> \in DOMAIN dir THEN inodes[dir[<<severity, i>>]] ELSE <<>>)
            \o OnDiskFrom(severity, i - 1)

OnDisk(severity) == OnDiskFrom(severity, MaxOf(BackupIndexes(severity) \cup {0}))

IsSuffix(s, t) ==
    /\ Len(s) <= Len(t)
    /\ s = SubSeq(t, Len(t) - Len(s) + 1, Len(t))

\* C4: for every record whose severity is one of the eight known names,
\* written to an open writer, after write returns the file <severity>.log has a
\* new last line that is one JSON object with the record's message and severity
C4_WriteAppendsLine ==
    [][(/\ written' # written
        /\ "severity" \in DOMAIN Last(written')
        /\ Last(written').severity \in SEVERITY_FILES)
        => LET rec == Last(written')
               path == <<rec.severity, 0>>
           IN  /\ path \in DOMAIN dir'
               /\ LET after == ReadLines(inodes'[dir'[path]])
                  IN  /\ after.tail = <<>>
                      /\ after.lines # <<>>
                      /\ IsJsonLine(Last(after.lines))
                      /\ LineRecord(Last(after.lines)).message = rec.message
                      /\ LineRecord(Last(after.lines)).severity = rec.severity
                      /\ \/ Len(after.lines) = 1
                         \/ /\ path \in DOMAIN dir
                            /\ after.lines = Append(ReadLines(inodes[dir[path]]).lines,
                                                    Last(after.lines))]_vars

\* a write of a known severity has appended its line after an earlier line
C4_Witness ==
    /\ written # <<>>
    /\ "severity" \in DOMAIN Last(written)
    /\ Last(written).severity = "error"
    /\ <<"error", 0>> \in DOMAIN dir
    /\ LET now_lines == ReadLines(inodes[dir[<<"error", 0>>]]).lines
       IN  /\ Len(now_lines) = 2
           /\ IsJsonLine(Last(now_lines))
           /\ LineRecord(Last(now_lines)) = Last(written)

\* C5: whenever the active file <severity>.log exists with size at least
\* max_bytes, the next write to that severity rotates before appending: after
\* the write <severity>.log.1 holds the previous active content and the new
\* active file contains only the record just written
C5_RotationTrigger ==
    [][(/\ written' # written
        /\ <<ValidSeverity(Last(written')), 0>> \in DOMAIN dir
        /\ Size(inodes[dir[<<ValidSeverity(Last(written')), 0>>]]) >= max_bytes)
        => LET rec == Last(written')
               active == <<ValidSeverity(rec), 0>>
               backup == <<ValidSeverity(rec), 1>>
           IN  /\ backup \in DOMAIN dir'
               /\ inodes'[dir'[backup]] = inodes[dir[active]]
               /\ active \in DOMAIN dir'
               /\ inodes'[dir'[active]] = <<JsonToken(rec), NewlineToken>>
               /\ Size(inodes'[dir'[active]]) <= JsonLen(rec) + 1]_vars

\* the last write found info.log full: info.log.1 now holds the full file and
\* info.log holds the one record just written
C5_Witness ==
    /\ written # <<>>
    /\ ValidSeverity(Last(written)) = "info"
    /\ <<"info", 1>> \in DOMAIN dir
    /\ <<"info", 0>> \in DOMAIN dir
    /\ Size(inodes[dir[<<"info", 1>>]]) >= max_bytes
    /\ inodes[dir[<<"info", 0>>]] = <<JsonToken(Last(written)), NewlineToken>>

\* the rotation scenario: MaxWrites records of one size, smaller than
\* max_bytes, all to severity info, with a positive backup_count
ScenarioDone ==
    /\ backup_count >= 1
    /\ Len(written) = MaxWrites
    /\ \A i \in 1..Len(written) : written[i] = [severity |-> "info", message |-> "m"]

\* C6, as stated: after the rotation scenario at least one backup info.log.<i>
\* exists and the lines of info.log and its backups number the records written
C6_NoRecordLost ==
    ScenarioDone =>
        /\ BackupIndexes("info") # {}
        /\ Len(ReadLines(OnDisk("info")).lines) = Len(written)

\* C6, amended: after the rotation scenario at least one backup exists; at all
\* times info.log and its backups hold, in order, the most recent records
\* written to info, and all of them while fewer than backup_count backups exist
C6_RecentRecordsKept ==
    /\ ScenarioDone => BackupIndexes("info") # {}
    /\ IsSuffix(OnDisk("info"), Serialize(WrittenTo("info")))
    /\ Cardinality(BackupIndexes("info")) < backup_count
        => OnDisk("info") = Serialize(WrittenTo("info"))

\* the scenario has ended with a backup on disk and fewer lines than records
C6_Witness ==
    /\ ScenarioDone
    /\ BackupIndexes("info") # {}
    /\ Len(ReadLines(OnDisk("info")).lines) < Len(written)

\* C7: the closed flag is never reset, and once close() has set it no file
\* handle is opened and no line is appended to any log file, whatever the
\* interleaving of close() with write() calls; a write() that starts on a
\* closed writer changes no file and no writer state
C7_ClosedWriterIsInert ==
    [][is_closed
        => /\ is_closed'
           /\ Len(handles') = Len(handles)
           /\ \A i \in DOMAIN inodes :
                ReadLines(inodes'[i]).lines = ReadLines(inodes[i]).lines
           /\ nwrites' # nwrites => UNCHANGED <<fileVars, lockVars, wthreadVars>>]_vars

\* a file object was opened, and wrote a line, on a writer whose close() had
\* returned
C7_Witness ==
    /\ is_closed
    /\ cpc = "idle"
    /\ \E h \in DOMAIN handles : ~handles[h].closed
    /\ \A t \in WThreads : wpc[t] = "idle"

\* C8: for every interleaving of write() calls by several threads on an open
\* writer, without rotation, each severity file ends with exactly one complete
\* JSON line per write call made for that severity
C8_LineIntegrity ==
    (/\ \A t \in WThreads : wpc[t] = "idle"
     /\ ~is_closed
     /\ \A p \in DOMAIN dir : p[2] = 0)
        => \A severity \in {"info", "error"} :
            LET content == IF <<severity, 0>> \in DOMAIN dir
                           THEN inodes[dir[<<severity, 0>>]] ELSE <<>>
                file == ReadLines(content)
            IN  /\ file.tail = <<>>
                /\ \A i \in 1..Len(file.lines) : IsJsonLine(file.lines[i])
                /\ Len(file.lines) = Len(WrittenTo(severity))
                /\ \A rec \in {r \in ConcRecords : ValidSeverity(r) = severity} :
                    Cardinality({i \in 1..Len(file.lines) : file.lines[i] = <<JsonToken(rec)>>})
                        = Cardinality({i \in 1..Len(written) : written[i] = rec})

\* two write() calls to one severity have returned on an open writer
C8_Witness ==
    /\ \A t \in WThreads : wpc[t] = "idle"
    /\ ~is_closed
    /\ Len(WrittenTo("info")) = 2
    /\ \A p \in DOMAIN dir : p[2] = 0

\* the open handles on the files of a bucket, backups included
OpenHandlesOn(hs, d, bucket) ==
    {h \in DOMAIN hs :
        /\ ~hs[h].closed
        /\ \E p \in DOMAIN d : p[1] = bucket /\ d[p] = hs[h].inode}

\* C19: a write of a record whose severity is not one of the eight names
\* returns with the record as the new last line of unknown.log, changes no
\* other file, and uses the one lock and the one handle kept under the
\* name unknown, whatever the severity of the record was.
C19_UnknownBucket ==
    [][(/\ written' # written
        /\ "severity" \in DOMAIN Last(written')
        /\ Last(written').severity \notin SEVERITY_FILES)
        => LET rec == Last(written')
               path == <<"unknown", 0>>
           IN  /\ path \in DOMAIN dir'
               /\ LET after == ReadLines(inodes'[dir'[path]])
                  IN  /\ after.tail = <<>>
                      /\ after.lines # <<>>
                      /\ IsJsonLine(Last(after.lines))
                      /\ LineRecord(Last(after.lines)) = rec
               /\ \A p \in DOMAIN dir \cup DOMAIN dir' :
                    p[1] # "unknown"
                        => /\ p \in DOMAIN dir /\ p \in DOMAIN dir'
                           /\ inodes'[dir'[p]] = inodes[dir[p]]
               /\ Cardinality({i \in 1..Len(locks') : locks'[i].severity = "unknown"}) = 1
               /\ \A i \in 1..Len(locks') : locks'[i].severity \in SEVERITY_FILES \cup {"unknown"}
               /\ HasLock(locks, "unknown") => locks' = locks
               /\ DOMAIN file_handles' = DOMAIN file_handles \cup {"unknown"}
               /\ DOMAIN file_handles' \subseteq SEVERITY_FILES \cup {"unknown"}
               /\ OpenHandlesOn(handles', dir', "unknown") = {file_handles'["unknown"]}
               /\ \A severity \in DOMAIN file_handles \ {"unknown"} :
                    /\ file_handles'[severity] = file_handles[severity]
                    /\ handles'[file_handles[severity]] = handles[file_handles[severity]]]_vars

\* records of two different severities outside the table, and one inside
\* it, were written: unknown.log holds the two, under one lock and one handle
C19_Witness ==
    /\ Len(written) = 3
    /\ written[1].severity = "../etc"
    /\ written[2].severity = "info"
    /\ written[3].severity = "INFO"
    /\ <<"unknown", 0>> \in DOMAIN dir
    /\ Len(ReadLines(inodes[dir[<<"unknown", 0>>]]).lines) = 2
    /\ LockKeys(locks) = <<"unknown", "info">>
    /\ DOMAIN file_handles = {"unknown", "info"}
    /\ Cardinality(OpenHandlesOn(handles, dir, "unknown")) = 1

\* C20: the handle lifecycle: once close() has returned and every write()
\* in flight has returned, the handle map is empty and every handle the
\* writer opened is closed.
C20_HandleLifecycle ==
    (/\ is_closed
     /\ cpc = "idle"
     /\ \A t \in WThreads : wpc[t] = "idle")
        => /\ file_handles = EmptyMap
           /\ \A h \in DOMAIN handles : handles[h].closed

\* close() has returned, no write() is in flight, and the handle map still
\* holds an open handle
C20_Witness ==
    /\ is_closed
    /\ cpc = "idle"
    /\ \A t \in WThreads : wpc[t] = "idle"
    /\ \E severity \in DOMAIN file_handles : ~handles[file_handles[severity]].closed

\* C21: a write() that meets an I/O error returns with every lock released
\* and its record lost: the files hold no more lines than the records of the
\* writes that met no error, and no unfinished line; and a write that meets
\* no error appends its line as usual, as the one new line of the file.
C21_WriteFailureContained ==
    /\ [][failed' # failed
            => /\ nwrites' = nwrites + 1
               /\ \A l \in DOMAIN lockOwner' : lockOwner'[l] = "free"]_vars
    /\ [](\A severity \in SEVERITY_FILES :
            /\ ReadLines(OnDisk(severity)).tail = <<>>
            /\ Len(ReadLines(OnDisk(severity)).lines) <= Len(WrittenTo(severity)))
    /\ [][(written' # written /\ failed # <<>>)
            => LET rec == Last(written')
                   path == <<rec.severity, 0>>
               IN  /\ path \in DOMAIN dir'
                   /\ LET after == ReadLines(inodes'[dir'[path]])
                      IN  /\ after.tail = <<>>
                          /\ after.lines # <<>>
                          /\ IsJsonLine(Last(after.lines))
                          /\ LineRecord(Last(after.lines)) = rec
                          /\ \/ Len(after.lines) = 1
                             \/ /\ path \in DOMAIN dir
                                /\ after.lines = Append(ReadLines(inodes[dir[path]]).lines,
                                                        Last(after.lines))]_vars

\* a write met an I/O error at flush, the next write met none, and the file
\* holds the line of the first before the line of the second
C21_Witness ==
    /\ Len(failed) = 1
    /\ failed[1].step = "flush"
    /\ Len(written) = 1
    /\ <<"info", 0>> \in DOMAIN dir
    /\ LET lines == ReadLines(inodes[dir[<<"info", 0>>]]).lines
       IN  /\ Len(lines) = 2
           /\ IsJsonLine(lines[1]) /\ LineRecord(lines[1]) = failed[1].rec
           /\ IsJsonLine(lines[2]) /\ LineRecord(lines[2]) = written[1]

----------------------------------------------------------------------------
(***************************************************************************)
(* The receivers' properties.                                              *)
(***************************************************************************)
\* (source_ip, priority, message) of a received datagram, read off its text
KeyOf(m) ==
    <<m.source_ip, Parsed[m.message, m.at].priority, Parsed[m.message, m.at].message>>

\* the positions of the received datagrams that are the same message from
\* the same source as the datagram m
ReceivedAt(m) == {i \in 1..Len(received) : KeyOf(received[i]) = KeyOf(m)}

\* the records passed to the writer that are the message of the datagram m
WrittenOf(m) ==
    SelectSeq(written, LAMBDA rec : <<rec.source_ip, rec.priority, rec.message>> = KeyOf(m))

\* the lines of the files of a severity that are the JSON text of a record
LinesOf(severity, rec) ==
    LET lines == ReadLines(OnDisk(severity)).lines
    IN  {i \in 1..Len(lines) : IsJsonLine(lines[i]) /\ LineRecord(lines[i]) = rec}

\* C17: every received record is parsed, should_write is called with
\* (source_ip, parsed priority, parsed message); when it returns False the
\* writer is not called, otherwise the writer is called once with the parsed
\* record plus source_ip and received_at; so identical messages from one
\* source received within one window give exactly one written line.
C17_PipelineSequence ==
    /\ [][received' # received
            => LET m == Last(received')
                   parsed == Parsed[m.message, m.at]
                   c == lastCall'[1]
               IN  /\ c.key = <<m.source_ip, parsed.priority, parsed.message>>
                   /\ c.time = m.at
                   /\ IF c.result
                      THEN /\ nwrites' = nwrites + 1
                           /\ Len(written') = Len(written) + 1
                           /\ SubSeq(written', 1, Len(written)) = written
                           /\ LET rec == Last(written')
                              IN  /\ DOMAIN rec = DOMAIN parsed \cup {"source_ip", "received_at"}
                                  /\ \A f \in DOMAIN parsed : rec[f] = parsed[f]
                                  /\ rec.source_ip = m.source_ip
                                  /\ rec.received_at = IsoFormat(m.at)
                      ELSE UNCHANGED writerVars]_vars
    /\ [](\A n \in 1..Len(received) :
            LET at == {received[i].at : i \in ReceivedAt(received[n])}
            IN  (MaxOf(at) - MinOf(at) < window_minutes)
                    => LET recs == WrittenOf(received[n])
                       IN  /\ Len(recs) = 1
                           /\ Cardinality(LinesOf(recs[1].severity, recs[1])) = 1
                           /\ \A severity \in SEVERITY_FILES \ {recs[1].severity} :
                                    LinesOf(severity, recs[1]) = {})

\* three identical datagrams from one source came within one window, the
\* last after the first, and one record was written
C17_Witness ==
    /\ Len(received) = 3
    /\ \A i \in 1..3 : /\ received[i].source_ip = received[1].source_ip
                        /\ received[i].message = received[1].message
    /\ received[1].at < received[3].at
    /\ received[3].at - received[1].at < window_minutes
    /\ Len(written) = 1
    /\ ~lastCall[1].result

\* s is t with some of its elements left out
RECURSIVE IsSubsequence(_, _)
IsSubsequence(s, t) ==
    IF s = <<>> THEN TRUE
    ELSE IF t = <<>> THEN FALSE
    ELSE IF Head(s) = Head(t) THEN IsSubsequence(Tail(s), Tail(t))
    ELSE IsSubsequence(s, Tail(t))

\* the text and the receive time of each record handed to the pipeline
Deliveries ==
    [i \in 1..Len(received) |-> <<received[i].message, IsoFormat(received[i].at)>>]

\* the text and the receive time of each line of the files of a severity,
\* oldest backup first
FileDeliveries(severity) ==
    LET lines == ReadLines(OnDisk(severity)).lines
    IN  [i \in 1..Len(lines) |-> <<LineRecord(lines[i]).raw, LineRecord(lines[i]).received_at>>]

\* the step is the end of the session of p by a failed handshake, or by
\* peer EOF, a read error or a reset met by its handler
SessionFailure(p) ==
    /\ spc[p] \in {"handshake", "recv"}
    /\ spc'[p] \in {"failed", "exited"}

\* C22: the failure of one session ends that session only: the step changes
\* nothing of the other sessions, of self.running or of the listening
\* socket, and start() stays in its accept loop; and as long as stop() has
\* not been called the accept loop is not left, the listening socket stays
\* open and every session whose handler is in its loop has its socket open.
C22_SessionIsolation ==
    /\ [][\A p \in Peers :
            SessionFailure(p)
                => /\ \A q \in Peers \ {p} : /\ spc'[q] = spc[q]
                                              /\ ssock'[q] = ssock[q]
                                              /\ served'[q] = served[q]
                   /\ ssock'[p] = "closed"
                   /\ UNCHANGED <<running, listener, connections, stpc>>
                   /\ apc' = IF spc[p] = "handshake" THEN "loop" ELSE apc]_vars
    /\ []((running /\ stpc = "idle")
            => /\ apc \notin {"closing", "exited"}
               /\ listener # "closed"
               /\ \A q \in Peers :
                    spc[q] \in {"loop", "select", "recv"} => ssock[q] = "open")

\* the session of p1 ended before it was served, the session of p2, accepted
\* after it, was served since, and start() is in its accept loop
C22_Witness ==
    /\ running
    /\ stpc = "idle"
    /\ apc = "select"
    /\ connections = <<"p1", "p2">>
    /\ spc["p1"] = "exited"
    /\ served["p1"] = 0
    /\ spc["p2"] = "loop"
    /\ served["p2"] = 1

\* the accept loop and every handler have exited, and the listening socket
\* and every session socket are closed
ReceiverStopped ==
    /\ apc = "exited"
    /\ listener = "closed"
    /\ \A p \in Peers : /\ spc[p] \in {"away", "pending", "failed", "exited"}
                         /\ ssock[p] # "open"

\* C24: a session handler that has exited has closed its socket, and once
\* stop() has returned, whatever the interleaving with start() and the
\* sessions, the accept loop and every handler eventually exit with the
\* listening socket and every session socket closed.
C24_Cancellation ==
    /\ [](\A p \in Peers : spc[p] = "exited" => ssock[p] = "closed")
    /\ (stpc = "done") ~> ReceiverStopped

\* stop() has returned, and start(), which set self.running after it, is
\* in its accept loop with the listening socket open
C24_Witness ==
    /\ stpc = "done"
    /\ running
    /\ apc = "select"
    /\ listener = "open"

\* C23: a feed that takes the session's framing buffer over max_buffer_size
\* ends the session: its handler has left its loop and closed its socket.
C23_OverflowEndsSession == overflow => session = "closed"

\* a feed took the buffer over the limit, the buffer was reset and the
\* handler is still in its loop, ready for the next recv
C23_Witness ==
    /\ overflow
    /\ buffer = <<>>
    /\ pending = <<>>
    /\ session = "open"

\* C18: within one stream session the records reach the pipeline in the
\* order their frames arrived on the wire, and the kept records of one
\* severity stand in the severity's file in that same order.
C18_SessionOrder ==
    /\ TextsOf(emitted) = [i \in 1..Len(received) |-> received[i].message] \o pending
    /\ \A severity \in SEVERITY_FILES :
            /\ \A i \in 1..Len(ReadLines(OnDisk(severity)).lines) :
                    IsJsonLine(ReadLines(OnDisk(severity)).lines[i])
            /\ IsSubsequence(FileDeliveries(severity), Deliveries)

\* the session decoded two different records, both were processed and
\* kept, and the file of their severity holds them as its two lines
C18_Witness ==
    /\ Len(emitted) = 2
    /\ Len(fed) <= max_buffer_size
    /\ Len(received) = 2
    /\ received[1].message # received[2].message
    /\ pending = <<>>
    /\ Len(FileDeliveries("notice")) = 2
    /\ FileDeliveries("notice") = Deliveries

----------------------------------------------------------------------------
(***************************************************************************)
(* Mutual exclusion of the writers of one severity                         *)
(***************************************************************************)
\* the thread is inside `with lock`, between the second is_closed test and
\* the end of write(): at _should_rotate / _rotate_file, in
\* _get_file_handle, or between json.dump and flush
InSection(t) == wpc[t] \in {"rotate", "fh_check", "fh_open", "fh_return", "dump", "newline"}

\* the thread is about to rotate, or has dumped its record and not yet
\* written the newline and flushed
Rotating(t) == wpc[t] = "rotate" /\ ShouldRotate(WriterFiles, wsev[t])

Appending(t) == wpc[t] \in {"dump", "newline"}

\* C30: at most one thread at a time executes the rotate / open / append
\* section of write() for a given severity, under every interleaving,
\* concurrent first writes to a severity without a lock included; in
\* particular a rotation of a severity never overlaps an append to it.
C30_MutualExclusion ==
    \A t1, t2 \in WThreads :
        (t1 # t2 /\ wsev[t1] = wsev[t2]) =>
            /\ ~(InSection(t1) /\ InSection(t2))
            /\ ~(Rotating(t1) /\ Appending(t2))

\* two threads that made the first writes to info are both inside the
\* section, each holding a lock of its own
C30_Witness ==
    /\ InSection("w1")
    /\ InSection("w2")
    /\ wsev["w1"] = "info"
    /\ wsev["w2"] = "info"
    /\ wlock["w1"] # wlock["w2"]
    /\ lockOwner[wlock["w1"]] = "w1"
    /\ lockOwner[wlock["w2"]] = "w2"

----------------------------------------------------------------------------
(***************************************************************************)
(* The age of the backups                                                  *)
(***************************************************************************)
\* the records of the lines of <severity>.log.<i>, of <severity>.log for i = 0
FileRecords(severity, i) ==
    IF <<severity, i>> \in DOMAIN dir
    THEN LET lines == ReadLines(inodes[dir[<<severity, i>>]]).lines
         IN  [k \in 1..Len(lines) |-> LineRecord(lines[k])]
    ELSE <<>>

\* the records of <severity>.log.<i>, ..., <severity>.log.1, <severity>.log
RECURSIVE RecordsFrom(_, _)
RecordsFrom(severity, i) ==
    IF i < 0 THEN <<>> ELSE FileRecords(severity, i) \o RecordsFrom(severity, i - 1)

\* C28: at all times and for each severity, every record in
\* <severity>.log.<i> was written before every record in <severity>.log.<j>
\* for j < i and before every record in the active file: read from the
\* highest backup number down to the active file, the records on disk are
\* the latest writes to the severity in the order they were made.
C28_BackupAgeOrder ==
    \A severity \in SEVERITY_FILES :
        LET top == MaxOf(BackupIndexes(severity) \cup {0})
            recs == RecordsFrom(severity, top)
            all == WrittenTo(severity)
        IN  /\ Len(recs) <= Len(all)
            /\ recs = SubSeq(all, Len(all) - Len(recs) + 1, Len(all))

\* info.log.2, info.log.1 and info.log all hold records, and read in that
\* order they are the writes made to info, the oldest in info.log.2
C28_Witness ==
    /\ backup_count = 2
    /\ Len(WrittenTo("info")) >= 5
    /\ FileRecords("info", 2) # <<>>
    /\ FileRecords("info", 1) # <<>>
    /\ FileRecords("info", 0) # <<>>
    /\ FileRecords("info", 2) # FileRecords("info", 1)
    /\ FileRecords("info", 2) \o FileRecords("info", 1) \o FileRecords("info", 0)
            = WrittenTo("info")

----------------------------------------------------------------------------
(***************************************************************************)
(* The dedup key                                                           *)
(***************************************************************************)
\* C29: two should_write calls whose (source, priority, message) differ in
\* any component (source, priority, case or whitespace of the message) never
\* suppress each other: the result of a call depends only on the earlier
\* calls with exactly its own arguments, a first call being kept and a later
\* one suppressed iff it comes within the window its arguments started; and
\* with no cleanup the map holds one entry for each distinct triple kept.
C29_KeyIndependence ==
    /\ lastCall # <<>> =>
            LET c == lastCall[1]
            IN  /\ c.result <=> (c.first \/ ~c.within)
                /\ c.key \in DOMAIN seen_messages
                /\ c.result => seen_messages[c.key] = c.time
                /\ ~c.result => seen_messages[c.key] = firstCall[c.key]
    /\ DOMAIN seen_messages = DOMAIN firstCall
    /\ Cardinality(DOMAIN seen_messages) = Cardinality(DOMAIN firstCall)

\* all five triples are in the map, and the last call was kept as the first
\* of its triple at an instant when the four others were inside their windows
C29_Witness ==
    /\ lastCall # <<>>
    /\ lastCall[1].first
    /\ lastCall[1].result
    /\ lastCall[1].time = now
    /\ DOMAIN seen_messages = KeyArgs
    /\ \A k \in KeyArgs \ {lastCall[1].key} :
            /\ seen_messages[k] < now
            /\ ~ShouldWriteReturns(seen_messages, k, now)

----------------------------------------------------------------------------
(***************************************************************************)
(* The parser's contract                                                   *)
(***************************************************************************)
\* the index of a name in a table, counted from 0 as the code's tables are
TableIndex(table, name) == (CHOOSE i \in 1..Len(table) : table[i] = name) - 1

\* C25: for every PRI in 0..191 and each grammar that carries a priority
\* (RFC 5424, RFC 3164, priority-only), parse returns priority = PRI, the
\* facility name of PRI div 8 and the severity name of PRI mod 8, so that
\* (facility index) * 8 + (severity index) = PRI.
C25_PriRoundTrip ==
    \A pri \in 0..191, body \in PriBodies :
        (parse_result # <<>> /\ parse_message = PriTexts[pri, body]) =>
            /\ parse_result.priority = pri
            /\ parse_result.facility = FACILITY_MAP[(pri \div 8) + 1]
            /\ parse_result.severity = SEVERITY_MAP[(pri % 8) + 1]
            /\ TableIndex(FACILITY_MAP, parse_result.facility) * 8
                    + TableIndex(SEVERITY_MAP, parse_result.severity) = pri

\* the largest PRI has gone through the RFC 5424 grammar
C25_Witness ==
    /\ parse_result # <<>>
    /\ parse_message = PriTexts[191, Rfc5424Body]
    /\ parse_result.priority = 191
    /\ parse_result.facility = "local7"
    /\ parse_result.severity = "debug"

\* the text starts with `<`, one or more digits and `>`
HasLeadingPri(text) ==
    \E e \in 3..Len(text) :
        /\ Char(text, 1) = "<"
        /\ Char(text, e) = ">"
        /\ \A j \in 2..(e - 1) : Char(text, j) \in DigitChars

\* the record of a text that is taken as plain
IsPlainRecord(r, text) ==
    /\ "format" \notin DOMAIN r
    /\ r.priority = 13
    /\ r.facility = "user"
    /\ r.severity = "notice"
    /\ r.message = text

\* C26: parse tries RFC 5424, then RFC 3164, then priority-only, then plain,
\* and returns the result of the first that matches; format is 'RFC5424' or
\* 'RFC3164' for the first two and absent for the fallbacks; a text with no
\* leading <PRI> gets priority 13, facility user, severity notice and the
\* whole text as message.  (A parse that fails internally is C27's case.)
C26_GrammarDecisionList ==
    (parse_result # <<>> /\ "parse_error" \notin DOMAIN parse_result) =>
        LET m5 == RFC5424_PATTERN(parse_message)
            m3 == RFC3164_PATTERN(parse_message)
            mp == PriMatch(parse_message)
        IN  /\ m5.ok =>
                /\ parse_result.format = "RFC5424"
                /\ parse_result.version = m5.ver
                /\ parse_result.hostname = m5.hostname
                /\ parse_result.message = m5.msg
                /\ parse_result.priority = StrToInt(m5.pri)
            /\ (~m5.ok /\ m3.ok) =>
                /\ parse_result.format = "RFC3164"
                /\ "version" \notin DOMAIN parse_result
                /\ parse_result.timestamp = m3.timestamp
                /\ parse_result.hostname = m3.hostname
                /\ parse_result.message = m3.msg
                /\ parse_result.priority = StrToInt(m3.pri)
            /\ (~m5.ok /\ ~m3.ok /\ mp.ok) =>
                /\ "format" \notin DOMAIN parse_result
                /\ "hostname" \notin DOMAIN parse_result
                /\ parse_result.message = mp.msg
                /\ parse_result.priority = StrToInt(mp.pri)
            /\ (~m5.ok /\ ~m3.ok /\ ~mp.ok) => IsPlainRecord(parse_result, parse_message)
            /\ ~HasLeadingPri(parse_message) => IsPlainRecord(parse_result, parse_message)

\* a text that both grammars match has been parsed, as RFC 5424
C26_Witness ==
    /\ parse_result # <<>>
    /\ parse_message = BothGrammarsText
    /\ RFC3164_PATTERN(parse_message).ok
    /\ parse_result.format = "RFC5424"
    /\ parse_result.version = "123"

\* C27: parse never raises: for every text it returns a record with at least
\* priority, facility, severity, message and raw; on an internal failure the
\* record has severity 'error', the original text as message, and a
\* parse_error field.
C27_ParseNeverRaises ==
    parse_result # <<>> =>
        /\ "raised" \notin DOMAIN parse_result
        /\ {"priority", "facility", "severity", "message", "raw"} \subseteq DOMAIN parse_result
        /\ parse_result.raw = parse_message
        /\ "raised" \in DOMAIN ParseTry(parse_message, now) =>
                /\ parse_result.severity = "error"
                /\ parse_result.message = parse_message
                /\ "parse_error" \in DOMAIN parse_result

\* int() has refused the PRI of a text, and parse returned the error record
C27_Witness ==
    /\ parse_result # <<>>
    /\ parse_message = "<" \o LongPri \o ">" \o Rfc3164Body
    /\ "raised" \in DOMAIN ParseTry(parse_message, now)
    /\ parse_result.severity = "error"
    /\ parse_result.parse_error = "ValueError"

\* the digits between `<` and `>` of a text with a leading <PRI>, and what
\* follows the `>`
PriDigits(text) ==
    LET e == CHOOSE k \in 3..Len(text) :
                /\ Char(text, k) = ">"
                /\ \A j \in 2..(k - 1) : Char(text, j) \in DigitChars
    IN  SubSeq(text, 2, e - 1)

RestOf(text) == SubSeq(text, Len(PriDigits(text)) + 3, Len(text))

\* C35: for every text of the form '<' digits '>' REST that matches neither
\* the RFC 5424 nor the RFC 3164 grammar, parse returns priority equal to the
\* decimal value of the digits, facility and severity derived from it, and
\* message equal to REST, whatever characters REST contains.  (Digit runs
\* that int() refuses are left out: they are C27's case.)
C35_PriorityOnlyFallback ==
    (/\ parse_result # <<>>
     /\ HasLeadingPri(parse_message)
     /\ ~IntRaises(PriDigits(parse_message))
     /\ ~RFC5424_PATTERN(parse_message).ok
     /\ ~RFC3164_PATTERN(parse_message).ok)
        => LET pri == StrToInt(PriDigits(parse_message))
           IN  /\ parse_result.priority = pri
               /\ parse_result.facility = FacilityOf(pri)
               /\ parse_result.severity = SeverityOf(pri)
               /\ parse_result.message = RestOf(parse_message)

\* a text whose REST holds a newline was parsed: the record has the default
\* priority, not the 14 of the text, and the whole text as message
C35_Witness ==
    /\ parse_result # <<>>
    /\ parse_message = "<14>a\nb"
    /\ PriDigits(parse_message) = "14"
    /\ RestOf(parse_message) = "a\nb"
    /\ parse_result.priority = 13
    /\ parse_result.severity = "notice"
    /\ parse_result.message = parse_message

\* the PRI values of the model whose facility index is past the table
OutOfRangePris == {pri \in 0..MaxPri : pri \div 8 \notin 0..23}

\* C36: for a PRI whose facility index PRI div 8 lies outside 0..23, parse
\* does not fail and returns priority = PRI, facility 'unknown', and the
\* severity of the severity table at PRI mod 8.
C36_OutOfRangePriority ==
    /\ \A pri \in OutOfRangePris, body \in PriBodies :
            (parse_result # <<>> /\ parse_message = PriTexts[pri, body]) =>
                /\ "parse_error" \notin DOMAIN parse_result
                /\ parse_result.priority = pri
                /\ parse_result.facility = "unknown"
                /\ parse_result.severity = SEVERITY_MAP[(pri % 8) + 1]
    /\ (parse_result # <<>> /\ parse_message = "<999>Jan 15 10:30:45 h m") =>
            /\ "parse_error" \notin DOMAIN parse_result
            /\ parse_result.priority = 999
            /\ parse_result.facility = "unknown"
            /\ parse_result.severity = "debug"

\* PRI 197 has gone through the priority-only grammar
C36_Witness ==
    /\ parse_result # <<>>
    /\ parse_message = PriTexts[197, PriOnlyBody]
    /\ parse_result.priority = 197
    /\ parse_result.facility = "unknown"
    /\ parse_result.severity = "notice"

\* C40: for every input text the severity returned by parse is one of the
\* eight known names, never 'unknown', whatever the PRI value, so the record
\* handed on by _process_message goes to the file of one of the eight names
\* and never to unknown.log.
C40_SeverityClassified ==
    parse_result # <<>> =>
        /\ parse_result.severity \in SEVERITY_FILES
        /\ parse_result.severity \in {SEVERITY_MAP[i] : i \in 1..8}
        /\ \A source_ip \in SourceIps :
                /\ ValidSeverity(Stamped(parse_result, source_ip, now)) = parse_result.severity
                /\ FileName(ValidSeverity(Stamped(parse_result, source_ip, now))) # "unknown"

\* a text whose facility is unknown was parsed, and its severity is a known one
C40_Witness ==
    /\ parse_result # <<>>
    /\ parse_message = "<999>Jan 15 10:30:45 h m"
    /\ parse_result.facility = "unknown"
    /\ parse_result.severity = "debug"
    /\ ValidSeverity(parse_result) = "debug"

----------------------------------------------------------------------------
(***************************************************************************)
(* Termination of feed                                                     *)
(***************************************************************************)
\* C31: for every buffer content and every fed byte sequence a feed call
\* returns after finitely many steps: each pass of the extraction loop
\* either stops or strictly shortens the buffer.
C31_FeedTerminates ==
    /\ ~hung
    /\ LET pass == TryExtractOneMessage(buffer)
       IN  (buffer # <<>> /\ pass.kind # "None") => Len(pass.buffer) < Len(buffer)

\* the session received `-11 `: the pass of the loop returns an empty
\* message and leaves the buffer as it was, pass after pass
C31_Witness ==
    /\ hung
    /\ fed = <<45, 49, 49, SP>>
    /\ TryExtractOneMessage(fed).kind = "str"
    /\ TryExtractOneMessage(fed).buffer = fed

----------------------------------------------------------------------------
(***************************************************************************)
(* The rotation protocol                                                   *)
(***************************************************************************)
\* the inodes that carry a name in a directory
NamedInodes(d) == {d[p] : p \in DOMAIN d}

\* C32: a rotation of severity s closes and forgets the cached handle, moves
\* the content of each existing <s>.log.<i> (1 <= i < backup_count) to
\* <s>.log.<i+1>, moves the content of <s>.log to <s>.log.1, discards the
\* previous <s>.log.<backup_count>, leaves no active <s>.log, and never
\* produces a backup with an index greater than backup_count, for every
\* configured backup_count.  The rotation is the one a write() makes when it
\* finds the active file full; the write then goes on on what it left.
C32_RotationProtocol ==
    [][(written' # written /\ ShouldRotate(WriterFiles, ValidSeverity(Last(written'))))
        => LET s == ValidSeverity(Last(written'))
               w == RotateFile(WriterFiles, s, backup_count)
           IN  /\ s \notin DOMAIN w.file_handles
               /\ s \in DOMAIN file_handles => w.handles[file_handles[s]].closed
               /\ \A i \in 1..(backup_count - 1) :
                      BackupPath(s, i) \in DOMAIN dir =>
                          /\ BackupPath(s, i + 1) \in DOMAIN w.dir
                          /\ w.dir[BackupPath(s, i + 1)] = dir[BackupPath(s, i)]
               /\ BackupPath(s, 1) \in DOMAIN w.dir
               /\ w.dir[BackupPath(s, 1)] = dir[ActivePath(s)]
               /\ w.inodes[w.dir[BackupPath(s, 1)]]
                      = FlushHandle(WriterFiles, file_handles[s]).inodes[dir[ActivePath(s)]]
               /\ BackupPath(s, backup_count) \in DOMAIN dir =>
                      dir[BackupPath(s, backup_count)] \notin NamedInodes(w.dir)
               /\ ActivePath(s) \notin DOMAIN w.dir
               /\ \A p \in DOMAIN w.dir : p[1] = FileName(s) => p[2] <= backup_count
               /\ \A p \in DOMAIN w.dir : p[2] >= 1 => (p \in DOMAIN dir' /\ dir'[p] = w.dir[p])
               /\ \A p \in DOMAIN dir' : p[2] >= 1 => p \in DOMAIN w.dir]_vars

\* a writer configured with backup_count = 0 has rotated info.log: the
\* backup info.log.1 exists
C32_Witness ==
    /\ backup_count = 0
    /\ BackupPath("info", 1) \in DOMAIN dir
    /\ Size(inodes[dir[BackupPath("info", 1)]]) >= max_bytes
    /\ Len(WrittenTo("info")) >= 3

----------------------------------------------------------------------------
(***************************************************************************)
(* The reaper and the dedup map                                            *)
(***************************************************************************)
\* the entries of a map that are older than the window at the instant t
Expired(seen, t) == {k \in DOMAIN seen : seen[k] < t - window_minutes}

\* C33: at the moment a reaper pass completes, every entry left in the map
\* has a timestamp no older than the window before the current wall-clock
\* time, under every interleaving of the reaper with should_write calls.
C33_MapFreshAfterCleanup ==
    [][(rpc = "read" /\ rpc' = "sleep") => Expired(seen_messages', now') = {}]_vars

\* the reaper read the clock, time went on before it entered the locked
\* region, and an entry its cutoff keeps is by now older than the window
C33_Witness ==
    /\ rpc = "read"
    /\ rtime < now
    /\ Expired(seen_messages, now) # {}
    /\ Expired(seen_messages, now) \cap DOMAIN CleanupSeen(seen_messages, rtime) # {}

----------------------------------------------------------------------------
(***************************************************************************)
(* Backups are not written to                                              *)
(***************************************************************************)
\* the inodes of a directory whose only names are backup names
BackupInodes(d) ==
    {d[p] : p \in {q \in DOMAIN d : q[2] >= 1}} \ {d[p] : p \in {q \in DOMAIN d : q[2] = 0}}

\* C34: no record is ever appended to a file after it has been renamed to a
\* backup, and every cached handle always refers to the current active file
\* of its severity, which a write after a rotation creates afresh.
C34_BackupsImmutable ==
    /\ [][\A n \in BackupInodes(dir) : inodes'[n] = inodes[n]]_vars
    /\ [](\A severity \in DOMAIN file_handles :
            /\ ActivePath(severity) \in DOMAIN dir
            /\ handles[file_handles[severity]].inode = dir[ActivePath(severity)]
            /\ dir[ActivePath(severity)] \notin BackupInodes(dir))

\* info.log.1 holds a record after the full line that made it a backup:
\* a thread wrote through a handle it had opened before the rotation
C34_Witness ==
    /\ BackupPath("info", 1) \in DOMAIN dir
    /\ dir[BackupPath("info", 1)] \in BackupInodes(dir)
    /\ LET content == inodes[dir[BackupPath("info", 1)]]
       IN  /\ Len(content) >= 3
           /\ content[1].kind = "json"
           /\ content[2].kind = "nl"
           /\ content[3].kind = "json"

----------------------------------------------------------------------------
(***************************************************************************)
(* The reaper and the values should_write returns.                         *)
(***************************************************************************)
\* C37: reaper transparency: with cleanup passes run at any point of any
\* interleaving with should_write calls, every should_write call returns
\* the value it returns in the same run with no cleanup, where no entry is
\* ever removed: False when its key is in that map with a time less than
\* the window before the call's own, True otherwise.
C37_ReaperTransparency ==
    lastCall # <<>> =>
        LET c == lastCall[1]
        IN  c.result = ~c.within

\* a call returned True for a key that a cleanup pass had removed, made at
\* least the window after the call that stored the key's entry
C37_Witness ==
    /\ lastCall # <<>>
    /\ lastCall[1].result
    /\ ~lastCall[1].first
    /\ ~lastCall[1].within
    /\ \E k \in DOMAIN firstCall : k \notin DOMAIN seen_messages

----------------------------------------------------------------------------
(***************************************************************************)
(* Shutdown and the locks.                                                 *)
(***************************************************************************)
\* the locks a thread holds
HeldBy(who) == {l \in DOMAIN lockOwner : lockOwner[l] = who}

\* C38: shutdown is deadlock-free: under every interleaving of close() with
\* concurrent write() and flush_all() calls, a close() that has started
\* returns, and while it closes the files it holds the lock of every
\* severity in self.locks, all of which it has released when it returns;
\* every write() and flush_all() call returns; and no thread other than the
\* one in close() waits for a severity lock while it holds another.
C38_ShutdownDeadlockFree ==
    /\ (cpc # "idle") ~> (cpc = "idle")
    /\ [](cpc = "close_all" =>
            \A i \in 1..Len(locks) : lockOwner[locks[i].lock] = "closer")
    /\ [](cpc = "idle" => HeldBy("closer") = {} /\ master_lock = "free")
    /\ \A t \in WThreads : (wpc[t] # "idle") ~> (wpc[t] = "idle")
    /\ (fpc # "idle") ~> (fpc = "idle")
    /\ [](\A t \in WThreads : wpc[t] = "acquire" => HeldBy(t) = {})
    /\ [](fpc = "acquire" => HeldBy("flusher") = {})

\* close() holds the locks of two severities and is about to close the
\* files, while a write() call and a flush_all() call each wait for one of
\* these locks
C38_Witness ==
    /\ cpc = "close_all"
    /\ Cardinality(HeldBy("closer")) >= 2
    /\ \E t \in WThreads : wpc[t] = "acquire" /\ lockOwner[wlock[t]] = "closer"
    /\ fpc = "acquire" /\ lockOwner[flock] = "closer"

----------------------------------------------------------------------------
(***************************************************************************)
(* The dedup entry of a record whose write fails.                          *)
(***************************************************************************)
\* the lines of the severity files that hold a copy of rec
CopiesOf(rec) == UNION {LinesOf(severity, rec) : severity \in SEVERITY_FILES}

\* C39: dedup is recorded before the write: a _process_message call whose
\* record is kept leaves the key's entry in the map at the time of the
\* call, also when write() meets an I/O error or finds the writer closed;
\* a call with the same key less than the window later is dropped and
\* reaches no file; and no copy of a record whose write failed, or that
\* was handed to a closed writer, is in any file.
C39_DedupBeforeWrite ==
    /\ [][received' # received
            => LET c == lastCall'[1]
               IN  /\ c.result => /\ c.key \in DOMAIN seen_messages'
                                  /\ seen_messages'[c.key] = c.time
                   /\ c.within => /\ ~c.result
                                  /\ UNCHANGED <<writerVars, failed>>
                   /\ is_closed => UNCHANGED <<fileVars, written, failed>>]_vars
    /\ [](\A i \in DOMAIN failed : CopiesOf(failed[i].rec) = {})

\* the write of a kept record met an I/O error, and a message with the same
\* key received later within the window has been dropped
C39_Witness ==
    /\ failed # <<>>
    /\ lastCall # <<>>
    /\ ~lastCall[1].result
    /\ lastCall[1].within
    /\ lastCall[1].key = <<failed[1].rec.source_ip, failed[1].rec.priority,
                           failed[1].rec.message>>
    /\ lastCall[1].time > firstCall[lastCall[1].key]
    /\ written = <<>>

====
